---- MODULE Spec2Model ----
(***************************************************************************)
(* Model of the concurrent multi-agent query engine of Incident_IQ_Core:   *)
(*   app/multi_agent_query.py  ArchestraMultiAgentClient (query_agent,     *)
(*       query_all_agents, stream_agent, stream_all_agents) and            *)
(*       build_investigation_prompt;                                       *)
(*   main.py  invoke_investigator_api and invoke_investigator_api_stream.  *)
(*                                                                         *)
(* Scheduling is asyncio's: a coroutine runs atomically from one network   *)
(* await to the next.  asyncio.Queue() is unbounded, so queue.put never    *)
(* suspends; the suspension points of a session are the POST that creates  *)
(* the conversation, the opening of the streaming POST, each read of the   *)
(* response stream and the closing of the httpx.AsyncClient.  Each action  *)
(* below is one such atomic stretch of code.                               *)
(***************************************************************************)
EXTENDS Integers, Sequences, FiniteSets, TLC

(***************************************************************************)
(* Bounds of the model.                                                    *)
(***************************************************************************)
\* lines the backend delivers, over all response streams, in one pipeline run
MaxLines == 1
\* backend calls that fail in one pipeline run
MaxFaults == 1
\* lines a session reads from its response stream when it runs alone
MaxLen == 3
\* sessions whose backend calls fail in one pipeline run on empty streams
MaxFailing == 3
\* lines the sessions of a pipeline run read, all together, from a backend
\* that does not fail
MaxShared == 3
\* results in a list handed to build_investigation_prompt called on its own
MaxResults == 3
\* calls of build_investigation_prompt made on its own
MaxCalls == 2

(***************************************************************************)
(* Python values.                                                          *)
(***************************************************************************)
\* Python's None where a str is expected otherwise (result["response"]).
PyNone == "<None>"

\* dict.get(key, default)
Get(d, k, default) == IF k \in DOMAIN d THEN d[k] ELSE default

\* a join that walks the parts from the last to the first
RECURSIVE JoinReversed(_)
JoinReversed(parts) ==
    IF parts = <<>> THEN "" ELSE JoinReversed(Tail(parts)) \o parts[1]

\* "".join(text_parts)
RECURSIVE Join(_)
Join(parts) == IF parts = <<>> THEN "" ELSE parts[1] \o Join(Tail(parts))

(***************************************************************************)
(* The agents of a run (main.py).                                          *)
(***************************************************************************)
data_agents == <<"GITHUB_AGENT", "AWS_CLOUDWATCH_AGENT", "SLACK_AGENT">>

\* name of the reasoning agent: the two endpoints name it differently
reasoning_agent(endpoint) ==
    IF endpoint = "stream" THEN "REASONING_INVESTIGATOR"
    ELSE "REASONING_INVESTIGATOR_AGENT"

DataNames == {data_agents[i] : i \in 1..Len(data_agents)}
AgentNames == DataNames \cup {reasoning_agent("stream"), reasoning_agent("query")}

\* every session called with phase = 2
PhaseOfTwo(a) == 2

\* the phase argument a streaming session is called with
PhaseOf(a) == IF a \in DataNames THEN 1 ELSE 2

\* the queue a streaming session is handed: stream_all_agents' own (1) for the
\* data agents, event_generator's (2) for the reasoning agent
QueueOf(a) == IF a \in DataNames THEN 1 ELSE 2

(***************************************************************************)
(* Lines of the response stream.  A line either carries the 'data: '       *)
(* prefix or not; a payload is the sentinel, text that is not JSON, a JSON *)
(* value that is not an object, or a JSON object.                          *)
(***************************************************************************)
NoDataLine == [prefix |-> FALSE, form |-> "text"]
DoneLine == [prefix |-> TRUE, form |-> "done"]
GarbageLine == [prefix |-> TRUE, form |-> "garbage"]
ScalarLine == [prefix |-> TRUE, form |-> "scalar"]
ObjLine(o) == [prefix |-> TRUE, form |-> "object", obj |-> o]

TextStart == ObjLine([type |-> "text-start"])
TextDelta(d) == ObjLine([type |-> "text-delta", delta |-> d])
TextEnd == ObjLine([type |-> "text-end"])
ToolInput == ObjLine([type |-> "tool-input-available", toolName |-> "get_logs",
                      input |-> "q", toolCallId |-> "call-1"])
ToolOutput == ObjLine([type |-> "tool-output-available", toolCallId |-> "call-1",
                       output |-> "rows"])
\* a tool output event that carries no output (the tool returned nothing)
ToolOutputBare == ObjLine([type |-> "tool-output-available", toolCallId |-> "call-2"])
ToolError == ObjLine([type |-> "tool-output-error", errorText |-> "denied"])
UnknownKind == ObjLine([type |-> "finish"])
Untyped == ObjLine([note |-> "x"])

\* the streams a session meets when it runs alone
Lines == {NoDataLine, DoneLine, GarbageLine, ScalarLine, TextStart, TextDelta("a"),
          TextDelta("b"), TextEnd, ToolInput, ToolOutput, ToolOutputBare, ToolError,
          UnknownKind, Untyped}
\* the streams the sessions of a pipeline run meet
PipeLines == {TextDelta("a"), DoneLine}

\* str(e) of the exceptions the backend calls raise: for a session on its own,
\* and (Pipe) for the sessions of a pipeline run
ConvErrors == {"ConnectError", "HTTP 500"}
OpenErrors == {"ReadTimeout", "HTTP 502"}
ReadErrors == {"ReadTimeout", "RemoteProtocolError"}
CloseErrors == {"CloseError"}
PipeConvErrors == {"HTTP 500"}
PipeOpenErrors == {"ReadTimeout"}
PipeReadErrors == {"RemoteProtocolError"}
AttributeError == "object has no attribute 'get'"
(***************************************************************************)
(* Records of the program.                                                 *)
(***************************************************************************)
\* {} as event payload
EmptyDict == <<>>

\* an event dict as the sessions put it on the queue
Event(kind, agent, phase, data) ==
    [event |-> kind, agent |-> agent, phase |-> phase, data |-> data]

\* the close marker: queue.put(None)
None == [event |-> "None"]

\* the accumulators of a session: text_parts, tool_calls, tool_outputs, errors
EmptyAcc == [text_parts |-> <<>>, tool_calls |-> <<>>, tool_outputs |-> <<>>,
             errors |-> <<>>]

\* the result dict of a session that completed
SuccessResult(agent, acc) ==
    [agent |-> agent, status |-> "success", response |-> Join(acc.text_parts),
     tool_calls |-> acc.tool_calls, tool_outputs |-> acc.tool_outputs,
     errors |-> acc.errors]

\* the result dict built by the except clause of a session
ErrorResult(agent, msg) ==
    [agent |-> agent, status |-> "error", error |-> msg, response |-> PyNone,
     tool_calls |-> <<>>, tool_outputs |-> <<>>, errors |-> <<>>]

\* a coroutine that has not returned
Pending == [status |-> "pending"]
\* a coroutine that raised e instead of returning (gather hands back e)
Raised(msg) == [status |-> "raised", exception |-> msg]

(***************************************************************************)
(* The body of the stream loop: what one line does to a session.           *)
(* ctl is "next" (go on reading), "break" (sentinel) or "raise".           *)
(***************************************************************************)
Step(acc, put, ctl) == [acc |-> acc, put |-> put, ctl |-> ctl, msg |-> ""]
RaiseStep(acc, msg) == [acc |-> acc, put |-> <<>>, ctl |-> "raise", msg |-> msg]

\* a dispatch that puts a tool_call event for tool-input-available as well
StreamEventWithToolCall(agent, phase, acc, event) ==
    LET event_type == Get(event, "type", "")
        call == [tool |-> Get(event, "toolName", PyNone),
                 input |-> Get(event, "input", PyNone),
                 toolCallId |-> Get(event, "toolCallId", PyNone)]
        item == [toolCallId |-> Get(event, "toolCallId", PyNone),
                 output |-> Get(event, "output", "")]
        put(kind, data) ==
            <<[event |-> kind, agent |-> agent, phase |-> phase, data |-> data]>> IN
    CASE event_type = "text-start" -> Step(acc, put("text_start", <<>>), "next")
      [] event_type = "text-delta" ->
           Step([acc EXCEPT !.text_parts = Append(@, Get(event, "delta", ""))],
                put("text_delta", [delta |-> Get(event, "delta", "")]), "next")
      [] event_type = "text-end" -> Step(acc, put("text_end", <<>>), "next")
      [] event_type = "tool-output-available" ->
           Step([acc EXCEPT !.tool_outputs = Append(@, item)], put("tool_output", item),
                "next")
      [] event_type = "tool-input-available" ->
           Step([acc EXCEPT !.tool_calls = Append(@, call)], put("tool_call", call),
                "next")
      [] event_type = "tool-output-error" ->
           Step([acc EXCEPT !.errors = Append(@, Get(event, "errorText", ""))],
                put("error", [message |-> Get(event, "errorText", "")]), "next")
      [] OTHER -> Step(acc, <<>>, "next")

\* stream_agent: the dispatch on event_type
StreamEvent(agent, phase, acc, event) ==
    LET event_type == Get(event, "type", "") IN
    CASE event_type = "text-start" ->
           Step(acc, <<Event("text_start", agent, phase, EmptyDict)>>, "next")
      [] event_type = "text-delta" ->
           LET delta == Get(event, "delta", "") IN
           Step([acc EXCEPT !.text_parts = Append(@, delta)],
                <<Event("text_delta", agent, phase, [delta |-> delta])>>, "next")
      [] event_type = "text-end" ->
           Step(acc, <<Event("text_end", agent, phase, EmptyDict)>>, "next")
      [] event_type = "tool-output-available" ->
           LET output == Get(event, "output", "")
               item == [toolCallId |-> Get(event, "toolCallId", PyNone),
                        output |-> output] IN
           Step([acc EXCEPT !.tool_outputs = Append(@, item)],
                <<Event("tool_output", agent, phase, item)>>, "next")
      [] event_type = "tool-input-available" ->
           Step([acc EXCEPT !.tool_calls =
                    Append(@, [tool |-> Get(event, "toolName", PyNone),
                               input |-> Get(event, "input", PyNone),
                               toolCallId |-> Get(event, "toolCallId", PyNone)])],
                <<>>, "next")
      [] event_type = "tool-output-error" ->
           LET error_text == Get(event, "errorText", "") IN
           Step([acc EXCEPT !.errors = Append(@, error_text)],
                <<Event("error", agent, phase, [message |-> error_text])>>, "next")
      [] OTHER -> Step(acc, <<>>, "next")

\* a line loop without the `except json.JSONDecodeError: continue`
StreamLineStrict(agent, phase, acc, line) ==
    IF ~line.prefix THEN Step(acc, <<>>, "next")
    ELSE IF line.form = "done" THEN Step(acc, <<>>, "break")
    ELSE IF line.form = "garbage" THEN RaiseStep(acc, "JSONDecodeError")
    ELSE IF line.form = "scalar" THEN RaiseStep(acc, AttributeError)
    ELSE StreamEvent(agent, phase, acc, line.obj)

\* a line loop that does not test for the sentinel
StreamLineNoSentinel(agent, phase, acc, line) ==
    IF ~line.prefix THEN Step(acc, <<>>, "next")
    ELSE IF line.form \in {"done", "garbage"} THEN Step(acc, <<>>, "next")
    ELSE IF line.form = "scalar" THEN RaiseStep(acc, AttributeError)
    ELSE StreamEvent(agent, phase, acc, line.obj)

\* a line loop that rejects the events whose type it does not handle
StreamLineKnownOnly(agent, phase, acc, line) ==
    IF ~line.prefix THEN Step(acc, <<>>, "next")
    ELSE IF line.form = "done" THEN Step(acc, <<>>, "break")
    ELSE IF line.form = "garbage" THEN Step(acc, <<>>, "next")
    ELSE IF line.form = "scalar" THEN RaiseStep(acc, AttributeError)
    ELSE IF Get(line.obj, "type", "") \notin
              {"text-start", "text-delta", "text-end", "tool-input-available",
               "tool-output-available", "tool-output-error"}
         THEN RaiseStep(acc, "ValueError")
    ELSE StreamEvent(agent, phase, acc, line.obj)

\* a line loop that a tool error fails
StreamLineToolErrorRaises(agent, phase, acc, line) ==
    IF ~line.prefix THEN Step(acc, <<>>, "next")
    ELSE IF line.form = "done" THEN Step(acc, <<>>, "break")
    ELSE IF line.form = "garbage" THEN Step(acc, <<>>, "next")
    ELSE IF line.form = "scalar" THEN RaiseStep(acc, AttributeError)
    ELSE IF Get(line.obj, "type", "") = "tool-output-error"
         THEN RaiseStep(acc, Get(line.obj, "errorText", ""))
    ELSE StreamEvent(agent, phase, acc, line.obj)

\* a line loop that a line without the data prefix ends
StreamLineEndsOnBlank(agent, phase, acc, line) ==
    IF ~line.prefix THEN Step(acc, <<>>, "break")
    ELSE IF line.form = "done" THEN Step(acc, <<>>, "break")
    ELSE IF line.form = "garbage" THEN Step(acc, <<>>, "next")
    ELSE IF line.form = "scalar" THEN RaiseStep(acc, AttributeError)
    ELSE StreamEvent(agent, phase, acc, line.obj)

\* stream_agent: one iteration of `async for line in response.aiter_lines()`
StreamLine(agent, phase, acc, line) ==
    IF ~line.prefix THEN Step(acc, <<>>, "next")
    ELSE IF line.form = "done" THEN Step(acc, <<>>, "break")
    ELSE IF line.form = "garbage" THEN Step(acc, <<>>, "next")
    ELSE IF line.form = "scalar" THEN RaiseStep(acc, AttributeError)
    ELSE StreamEvent(agent, phase, acc, line.obj)

\* _send_message_and_collect: the dispatch on event_type
CollectEvent(acc, event) ==
    LET event_type == Get(event, "type", "") IN
    CASE event_type = "text-delta" ->
           Step([acc EXCEPT !.text_parts = Append(@, Get(event, "delta", ""))],
                <<>>, "next")
      [] event_type = "tool-input-available" ->
           Step([acc EXCEPT !.tool_calls =
                    Append(@, [tool |-> Get(event, "toolName", PyNone),
                               input |-> Get(event, "input", PyNone),
                               toolCallId |-> Get(event, "toolCallId", PyNone)])],
                <<>>, "next")
      [] event_type = "tool-output-available" ->
           Step([acc EXCEPT !.tool_outputs =
                    Append(@, [toolCallId |-> Get(event, "toolCallId", PyNone),
                               output |-> Get(event, "output", PyNone)])],
                <<>>, "next")
      [] event_type = "tool-output-error" ->
           Step([acc EXCEPT !.errors = Append(@, Get(event, "errorText", ""))],
                <<>>, "next")
      [] OTHER -> Step(acc, <<>>, "next")

\* _send_message_and_collect: one iteration of the line loop
CollectLine(acc, line) ==
    IF ~line.prefix THEN Step(acc, <<>>, "next")
    ELSE IF line.form = "done" THEN Step(acc, <<>>, "break")
    ELSE IF line.form = "garbage" THEN Step(acc, <<>>, "next")
    ELSE IF line.form = "scalar" THEN RaiseStep(acc, AttributeError)
    ELSE CollectEvent(acc, line.obj)

\* a session that announces nothing when it starts
StartEventsNone(agent, phase) == <<>>

\* stream_agent: what is put first, inside the client context
StartEvents(agent, phase) == <<Event("agent_start", agent, phase, EmptyDict)>>

\* stream_agent, lines 358-363: the event put when the stream completed
CompleteEvent(agent, phase, result) ==
    Event("agent_complete", agent, phase, [response |-> result.response])

\* an except clause that also closes the queue
ExceptEventsClosing(agent, phase, msg) ==
    << [event |-> "error", agent |-> agent, phase |-> phase, data |-> [message |-> msg]],
       [event |-> "agent_complete", agent |-> agent, phase |-> phase,
        data |-> [response |-> PyNone, error |-> msg]],
       [event |-> "None"] >>

\* an except clause whose agent_complete carries no error field
ExceptEventsBare(agent, phase, msg) ==
    << [event |-> "error", agent |-> agent, phase |-> phase, data |-> [message |-> msg]],
       [event |-> "agent_complete", agent |-> agent, phase |-> phase,
        data |-> [response |-> PyNone]] >>

\* stream_agent, lines 367-379: the events the except clause puts
ExceptEvents(agent, phase, msg) ==
    << Event("error", agent, phase, [message |-> msg]),
       Event("agent_complete", agent, phase, [response |-> PyNone, error |-> msg]) >>
(***************************************************************************)
(* asyncio.Queue and asyncio.gather.                                       *)
(***************************************************************************)
\* a queue of maxsize 2 whose put drops the item when the queue is full
QueuePutBounded(q, item) == IF Len(q) >= 2 THEN q ELSE Append(q, item)

\* a LifoQueue
QueuePutLifo(q, item) == <<item>> \o q

\* queue.put(item) on the unbounded FIFO asyncio.Queue()
QueuePut(q, item) == Append(q, item)

\* several puts of one atomic stretch of code, in program order
RECURSIVE PutAll(_, _)
PutAll(q, items) ==
    IF items = <<>> THEN q ELSE PutAll(QueuePut(q, items[1]), Tail(items))

\* queue.get(): the item handed out and the queue left behind
QueueHead(q) == Head(q)
QueueRest(q) == Tail(q)

\* results appended in reverse
ProcessedReversed(agents, returned, i) == returned[agents[Len(agents) + 1 - i]]

\* run_agents / query_all_agents: entry i of the processed results, made of
\* entry i of what gather returned
Processed(agents, returned, i) ==
    IF returned[agents[i]].status = "raised"
    THEN ErrorResult(agents[i], returned[agents[i]].exception)
    ELSE returned[agents[i]]

\* a loop that keeps the results of the sessions that succeeded
ProcessedSuccesses(agents, returned) ==
    SelectSeq([i \in 1..Len(agents) |-> returned[agents[i]]],
              LAMBDA r : r.status = "success")

\* the loop over enumerate(agent_results)
ProcessedResults(agents, returned) ==
    [i \in 1..Len(agents) |-> Processed(agents, returned, i)]

\* a gather that hands back results only, and so never resumes its awaiter
\* when a task has not returned one
GatherAllSucceeded(agents, returned) ==
    \A i \in 1..Len(agents) : returned[agents[i]].status = "success"

\* a wait that resumes on the first task finished (FIRST_COMPLETED)
GatherAny(agents, returned) ==
    \E i \in 1..Len(agents) : returned[agents[i]].status # "pending"

\* asyncio.gather(*tasks, return_exceptions=True) resumes its awaiter when
\* every task has finished, by returning or by raising
GatherReady(agents, returned) ==
    \A i \in 1..Len(agents) : returned[agents[i]] # Pending

(***************************************************************************)
(* build_investigation_prompt.                                             *)
(***************************************************************************)
\* str(x) inside an f-string
Str(x) == IF x = PyNone THEN "None" ELSE x

PromptHeader ==
    "# Incident Investigation Request\n"
    \o "\n"
    \o "You are an expert Site Reliability Engineer investigating a production incident.\n"
    \o "Below are findings from three different data sources. Your task is to:\n"
    \o "\n"
    \o "1. CORRELATE the evidence across all sources\n"
    \o "2. IDENTIFY the root cause of the incident\n"
    \o "3. EXPLAIN the chain of events that led to the issue\n"
    \o "4. RECOMMEND specific remediation actions\n"
    \o "\n"
    \o "---\n"
    \o "\n"
    \o "## Evidence from Data Sources\n"
    \o "\n"
PromptFooter ==
    "## Your Analysis\n"
    \o "\n"
    \o "Please provide:\n"
    \o "\n"
    \o "### 1. Root Cause Identification\n"
    \o "What is the primary cause of this incident? Be specific.\n"
    \o "\n"
    \o "### 2. Evidence Correlation\n"
    \o "How do the findings from CloudWatch, GitHub, and Slack connect?\n"
    \o "Show the timeline and causal chain.\n"
    \o "\n"
    \o "### 3. Timeline of Events\n"
    \o "Reconstruct what happened in chronological order.\n"
    \o "\n"
    \o "### 4. Recommended Actions\n"
    \o "What specific steps should be taken to resolve this incident?\n"
    \o "List in order of priority.\n"
    \o "\n"
    \o "### 5. Prevention\n"
    \o "How can similar incidents be prevented in the future?\n"
    \o "\n"
    \o "---\n"
    \o "\n"
    \o "Important: Base your analysis ONLY on the evidence provided. Be direct and actionable.\n"

\* the text the loop body adds for one result
\* a block that shows the response text whatever the status is
PromptBlockFindingsOnly(result) ==
    LET agent_name == Get(result, "agent", "Unknown Agent")
        status == Get(result, "status", "unknown") IN
    "### " \o agent_name \o "\n" \o "**Status:** " \o status \o "\n\n"
    \o "**Findings:**\n" \o Str(Get(result, "response", "No response")) \o "\n\n"
    \o "---\n\n"

\* for result in results: the lines appended for one result
PromptBlock(result) ==
    LET agent_name == Get(result, "agent", "Unknown Agent")
        status == Get(result, "status", "unknown") IN
    "### " \o agent_name \o "\n" \o "**Status:** " \o status \o "\n\n"
    \o (IF status = "success"
        THEN "**Findings:**\n" \o Str(Get(result, "response", "No response")) \o "\n\n"
        ELSE "**Error:** " \o Str(Get(result, "error", "Unknown error")) \o "\n\n")
    \o "---\n\n"

\* the blocks laid out from the last result to the first
RECURSIVE PromptBlocksReversed(_)
PromptBlocksReversed(rs) ==
    IF rs = <<>> THEN "" ELSE PromptBlocksReversed(Tail(rs)) \o PromptBlock(rs[1])

RECURSIVE PromptBlocks(_)
PromptBlocks(rs) ==
    IF rs = <<>> THEN "" ELSE PromptBlock(rs[1]) \o PromptBlocks(Tail(rs))

build_investigation_prompt(rs) == PromptHeader \o PromptBlocks(rs) \o PromptFooter

(***************************************************************************)
(* json.dumps of an event, as event_generator applies it.  A JSON text is  *)
(* represented by the value it encodes, tagged as encoded.                 *)
(***************************************************************************)
JsonDumps(e) == [json |-> e]
\* a generator that tags what it yields with its own phase counter, one ahead
FeedItemRetagged(e) == [data |-> JsonDumps([e EXCEPT !.phase = @ + 1])]

\* what the caller reads back from an item of the feed
FeedItem(e) == [data |-> JsonDumps(e)]
EndMarker == [data |-> [text |-> "[DONE]"]]
IsJson(item) == "json" \in DOMAIN item.data
Decoded(item) == item.data.json

(***************************************************************************)
(* State.                                                                  *)
(***************************************************************************)
VARIABLES
    endpoint,      \* "stream", "query": the endpoint called; "stream_agent",
                   \* "query_agent": one session run on its own
    sess,          \* per agent: pc, accumulators, result, the lines delivered so far
    ret,           \* per agent: what its session coroutine returned
    queue,         \* queue[1]: stream_all_agents' queue; queue[2]: event_generator's
    results,       \* stream_all_agents: results
    runpc,         \* run_agents / query_all_agents: "gather" or "done"
    genpc,         \* position of event_generator / invoke_investigator_api
    data_results,  \* the endpoint's data_results
    prompt,        \* the endpoint's investigation_prompt
    feed,          \* what event_generator has yielded to the caller
    response,      \* what invoke_investigator_api returned
    sent,          \* per agent: the events its session has put, in order
    fault,         \* per agent: the backend call that failed, with its message
    backend,       \* what the backend does at most in this run: lines delivered,
                   \* calls failed
    requests,      \* per agent: the requests its session has posted, in order
    built          \* build_investigation_prompt called on its own: the calls made,
                   \* each with its argument and the text returned

vars == <<endpoint, sess, ret, queue, results, runpc, genpc, data_results, prompt,
          feed, response, sent, fault, backend, requests,
          built>>

NewSession(pc) == [pc |-> pc, acc |-> EmptyAcc, result |-> Pending, lines |-> <<>>]
NoFault == [at |-> "none", msg |-> ""]
NoResponse == [status |-> "pending"]

\* the state shared by every initial condition
InitCommon ==
    /\ ret = [a \in AgentNames |-> Pending]
    /\ queue = [p \in {1, 2} |-> <<>>]
    /\ results = <<>>
    /\ runpc = "gather"
    /\ data_results = <<>>
    /\ prompt = ""
    /\ feed = <<>>
    /\ response = NoResponse
    /\ sent = [a \in AgentNames |-> <<>>]
    /\ fault = [a \in AgentNames |-> NoFault]
    /\ requests = [a \in AgentNames |-> <<>>]
    /\ built = <<>>

\* an endpoint has been called: the Phase-1 tasks exist and none has run yet
Init ==
    /\ endpoint \in {"stream", "query"}
    /\ sess = [a \in AgentNames |-> NewSession(IF a \in DataNames THEN "new" ELSE "idle")]
    /\ genpc = "phase1"
    /\ backend = [lines |-> MaxLines, faults |-> MaxFaults]
    /\ InitCommon

\* an endpoint has been called on a backend whose streams are empty and that
\* may fail the calls of several sessions
InitOutcomes ==
    /\ endpoint \in {"stream", "query"}
    /\ sess = [a \in AgentNames |-> NewSession(IF a \in DataNames THEN "new" ELSE "idle")]
    /\ genpc = "phase1"
    /\ backend = [lines |-> 0, faults |-> MaxFailing]
    /\ InitCommon

\* the streaming endpoint has been called on a backend whose streams are
\* empty and that may fail
InitStream ==
    /\ endpoint = "stream"
    /\ sess = [a \in AgentNames |-> NewSession(IF a \in DataNames THEN "new" ELSE "idle")]
    /\ genpc = "phase1"
    /\ backend = [lines |-> 0, faults |-> MaxFaults]
    /\ InitCommon

\* an endpoint has been called on a backend that does not fail and whose
\* streams hold several lines
InitConcurrent ==
    /\ endpoint \in {"stream", "query"}
    /\ sess = [a \in AgentNames |-> NewSession(IF a \in DataNames THEN "new" ELSE "idle")]
    /\ genpc = "phase1"
    /\ backend = [lines |-> MaxShared, faults |-> 0]
    /\ InitCommon

\* one session on its own, its queue read by nobody
InitSession ==
    /\ endpoint \in {"stream_agent", "query_agent"}
    /\ sess = [a \in AgentNames |-> NewSession(IF a = data_agents[1] THEN "new" ELSE "idle")]
    /\ genpc = "none"
    /\ backend = [lines |-> MaxLen, faults |-> 1]
    /\ InitCommon

\* the result dicts a session can return for a data agent
ResultSet ==
    {SuccessResult(a, [EmptyAcc EXCEPT !.text_parts = <<t>>]) :
        a \in DataNames, t \in {"a"}}
    \cup {ErrorResult(a, msg) : a \in DataNames, msg \in {"timeout"}}

\* the lists of results of length n
RECURSIVE ResultLists(_)
ResultLists(n) ==
    IF n = 0 THEN {<<>>}
    ELSE {Append(rs, r) : rs \in ResultLists(n - 1), r \in ResultSet}

\* build_investigation_prompt is about to be called on a list of results
InitPrompt ==
    /\ endpoint = "build_investigation_prompt"
    /\ sess = [a \in AgentNames |-> NewSession("idle")]
    /\ genpc = "none"
    /\ backend = [lines |-> 0, faults |-> 0]
    /\ ret = [a \in AgentNames |-> Pending]
    /\ queue = [p \in {1, 2} |-> <<>>]
    /\ results = <<>>
    /\ runpc = "gather"
    /\ \E n \in 0..MaxResults : data_results \in ResultLists(n)
    /\ prompt = ""
    /\ feed = <<>>
    /\ response = NoResponse
    /\ sent = [a \in AgentNames |-> <<>>]
    /\ fault = [a \in AgentNames |-> NoFault]
    /\ requests = [a \in AgentNames |-> <<>>]
    /\ built = <<>>

Streaming == endpoint \in {"stream", "stream_agent"}
Reasoning == reasoning_agent(endpoint)
Pipeline == endpoint \in {"stream", "query"}
\* the backend of the model: the lines of its response streams, its failures
LineSet == IF Pipeline THEN PipeLines ELSE Lines
ConvErrorSet == IF Pipeline THEN PipeConvErrors ELSE ConvErrors
OpenErrorSet == IF Pipeline THEN PipeOpenErrors ELSE OpenErrors
ReadErrorSet == IF Pipeline THEN PipeReadErrors ELSE ReadErrors

\* lines delivered so far to the sessions of S
RECURSIVE SumRead(_)
SumRead(S) ==
    IF S = {} THEN 0
    ELSE LET a == CHOOSE x \in S : TRUE IN Len(sess[a].lines) + SumRead(S \ {a})

\* the backend may deliver one more line to session a
MayRead(a) ==
    IF Pipeline THEN SumRead(AgentNames) < backend.lines
    ELSE Len(sess[a].lines) < backend.lines

\* one more backend call may fail
MayFail ==
    Pipeline => Cardinality({a \in AgentNames : fault[a].at # "none"}) < backend.faults

\* position of a data agent in the list handed to gather
Index(a) == CHOOSE i \in 1..Len(data_agents) : data_agents[i] = a

\* sessions awaited one after the other: a session starts when those before it
\* in the list have returned
StartedSequential(a) ==
    a \in DataNames => \A i \in 1..(Index(a) - 1) : sess[data_agents[i]].pc = "done"

\* gather makes the tasks in list order, and the loop runs new tasks in the order
\* they were made: a task takes its first step after those made before it
Started(a) ==
    a \in DataNames => \A i \in 1..(Index(a) - 1) : sess[data_agents[i]].pc # "new"

\* accumulators kept in one place for all the sessions of a client
AccumulatorsShared(a) == sess[data_agents[1]].acc

\* one set of lists for the sessions of a phase
AccumulatorsPerPhase(a) ==
    sess[IF a \in DataNames THEN data_agents[Len(data_agents)] ELSE a].acc

\* the accumulators a session's loop body works on: its own local lists
Accumulators(a) == sess[a].acc

\* an except clause that returns what the session had accumulated
ExceptReturnPartial(agent, msg) ==
    [agent |-> agent, status |-> "error", error |-> msg,
     response |-> Join(sess[agent].acc.text_parts),
     tool_calls |-> sess[agent].acc.tool_calls,
     tool_outputs |-> sess[agent].acc.tool_outputs,
     errors |-> sess[agent].acc.errors]

\* an except clause for which a timeout is a stream that ended
ExceptReturnTimeoutEnds(agent, msg) ==
    IF msg = "ReadTimeout" THEN SuccessResult(agent, sess[agent].acc)
    ELSE ErrorResult(agent, msg)

\* an except clause that re-raises
ExceptReraise(agent, msg) == [status |-> "raised", exception |-> msg]

\* what the except clause of a session returns
ExceptReturn(agent, msg) == ErrorResult(agent, msg)

(***************************************************************************)
(* The requests of a session.                                              *)
(***************************************************************************)
\* the instruction the caller gave for a data agent (prompt.GITHUB_AGENT_PROMPT, ...)
UserPrompt(a) == a \o "_PROMPT"

\* a reasoning agent whose message is built from the empty list data_results
\* starts as
MessageOfNoResults(a) ==
    IF a \in DataNames THEN UserPrompt(a) ELSE build_investigation_prompt(<<>>)

\* agent_config.message: the caller's instruction for a data agent, the
\* investigation prompt for the reasoning agent
Message(a) == IF a \in DataNames THEN UserPrompt(a) ELSE prompt

\* _create_conversation: the POST to /api/chat/conversations
CreateRequest(a) == [url |-> "/api/chat/conversations", title |-> a \o " Query"]

\* the POST to /api/chat that sends the message and opens the stream
ChatRequest(id, message) == [url |-> "/api/chat", id |-> id, content |-> message]

IsCreate(r) == r.url = "/api/chat/conversations"
IsChat(r) == r.url = "/api/chat"

\* response.json()["id"]: the backend gives every conversation an id of its own;
\* the model names it by the request that created it and that request's rank
\* among the session's conversation requests
\* one conversation that every session uses
ConversationIdShared(a) == [title |-> "Query", n |-> 1]

\* response.json()["id"]: the id the backend returned for the conversation the
\* session created, a new one for each conversation
ConversationId(a) ==
    [title |-> a \o " Query", n |-> Len(SelectSeq(requests[a], IsCreate))]

\* the session posts its conversation request
PostConversation(a) ==
    requests' = [requests EXCEPT ![a] = Append(@, CreateRequest(a))]

\* the session posts its message on the conversation it was given
PostMessage(a) ==
    requests' = [requests EXCEPT ![a] = Append(@, ChatRequest(ConversationId(a), Message(a)))]

(***************************************************************************)
(* What follows a session's return in the coroutine that awaited it        *)
(* directly (no suspension in between).                                    *)
(***************************************************************************)
\* run_investigator: await queue.put(None) after stream_agent returned
AfterStreamReturn(a) ==
    IF endpoint = "stream" /\ a = Reasoning THEN <<None>> ELSE <<>>

\* a streaming session puts evs and goes on
SessionPuts(a, evs) ==
    /\ queue' = [queue EXCEPT ![QueueOf(a)] = PutAll(@, evs)]
    /\ sent' = [sent EXCEPT ![a] = @ \o evs]

\* a streaming session puts evs and returns res
StreamReturns(a, evs, res) ==
    /\ queue' = [queue EXCEPT ![QueueOf(a)] = PutAll(@, evs \o AfterStreamReturn(a))]
    /\ sent' = [sent EXCEPT ![a] = @ \o evs]
    /\ ret' = [ret EXCEPT ![a] = res]

\* stream_agent's except clause, entered with exception msg raised at `at`
\* (ln: the line that was being decoded, if any)
StreamExcept(a, at, msg, ln) ==
    /\ sess' = [sess EXCEPT ![a].pc = "done", ![a].lines = @ \o ln]
    /\ StreamReturns(a, ExceptEvents(a, PhaseOf(a), msg), ExceptReturn(a, msg))
    /\ fault' = [fault EXCEPT ![a] = [at |-> at, msg |-> msg]]
    /\ UNCHANGED <<endpoint, backend, requests, built, results, runpc, genpc, data_results, prompt, feed, response>>

\* stream_agent: the loop is left (ln: the sentinel line, if that ended it);
\* result and agent_complete; the client closes
StreamFinish(a, acc, ln) ==
    LET result == SuccessResult(a, acc) IN
    /\ sess' = [sess EXCEPT ![a].pc = "closing", ![a].acc = acc, ![a].result = result,
                            ![a].lines = @ \o ln]
    /\ SessionPuts(a, <<CompleteEvent(a, PhaseOf(a), result)>>)
    /\ UNCHANGED <<endpoint, backend, requests, built, ret, results, runpc, genpc, data_results, prompt, feed,
                   response, fault>>

(***************************************************************************)
(* stream_agent.                                                           *)
(***************************************************************************)
\* the task starts: agent_start, then the POST that creates the conversation
StreamStart(a) ==
    /\ Streaming /\ sess[a].pc = "new" /\ Started(a)
    /\ sess' = [sess EXCEPT ![a].pc = "conv"]
    /\ SessionPuts(a, StartEvents(a, PhaseOf(a)))
    /\ PostConversation(a)
    /\ UNCHANGED <<endpoint, backend, built, ret, results, runpc, genpc, data_results, prompt, feed,
                   response, fault>>

\* _create_conversation returned an id: the streaming POST is sent
StreamConvOk(a) ==
    /\ Streaming /\ sess[a].pc = "conv"
    /\ sess' = [sess EXCEPT ![a].pc = "open"]
    /\ PostMessage(a)
    /\ UNCHANGED <<endpoint, backend, built, ret, queue, results, runpc, genpc, data_results, prompt,
                   feed, response, sent, fault>>

\* _create_conversation raised (network error, raise_for_status)
StreamConvFail(a, msg) ==
    /\ Streaming /\ MayFail /\ sess[a].pc = "conv"
    /\ StreamExcept(a, "conv", msg, <<>>)

\* the response arrived with a 2xx status
StreamOpenOk(a) ==
    /\ Streaming /\ sess[a].pc = "open"
    /\ sess' = [sess EXCEPT ![a].pc = "read"]
    /\ UNCHANGED <<endpoint, backend, requests, built, ret, queue, results, runpc, genpc, data_results, prompt,
                   feed, response, sent, fault>>

\* client.stream raised (timeout, network error) or raise_for_status did
StreamOpenFail(a, msg) ==
    /\ Streaming /\ MayFail /\ sess[a].pc = "open"
    /\ StreamExcept(a, "open", msg, <<>>)

\* aiter_lines delivered a line
StreamRead(a, line) ==
    /\ Streaming /\ sess[a].pc = "read" /\ MayRead(a)
    /\ LET st == StreamLine(a, PhaseOf(a), Accumulators(a), line) IN
       CASE st.ctl = "next" ->
              /\ sess' = [sess EXCEPT ![a].acc = st.acc, ![a].lines = Append(@, line)]
              /\ SessionPuts(a, st.put)
              /\ UNCHANGED <<endpoint, backend, requests, built, ret, results, runpc, genpc, data_results,
                             prompt, feed, response, fault>>
         [] st.ctl = "break" -> StreamFinish(a, st.acc, <<line>>)
         [] st.ctl = "raise" -> StreamExcept(a, "decode", st.msg, <<line>>)

\* a loop left without a sentinel leaves nothing of what was accumulated
StreamEofEmpty(a) ==
    /\ Streaming /\ sess[a].pc = "read"
    /\ StreamFinish(a, EmptyAcc, <<>>)

\* the response ended without a sentinel
StreamEof(a) ==
    /\ Streaming /\ sess[a].pc = "read"
    /\ StreamFinish(a, Accumulators(a), <<>>)

\* reading the response raised (timeout, connection lost)
StreamReadFail(a, msg) ==
    /\ Streaming /\ MayFail /\ sess[a].pc = "read"
    /\ StreamExcept(a, "read", msg, <<>>)

\* the AsyncClient closed: `return result` completes
StreamCloseOk(a) ==
    /\ Streaming /\ sess[a].pc = "closing"
    /\ sess' = [sess EXCEPT ![a].pc = "done"]
    /\ StreamReturns(a, <<>>, sess[a].result)
    /\ UNCHANGED <<endpoint, backend, requests, built, results, runpc, genpc, data_results, prompt, feed,
                   response, fault>>

\* closing the AsyncClient raised: the except clause runs after agent_complete
StreamCloseFail(a, msg) ==
    /\ Streaming /\ MayFail /\ sess[a].pc = "closing"
    /\ StreamExcept(a, "close", msg, <<>>)

stream_agent(a) ==
    \/ StreamStart(a)
    \/ StreamConvOk(a)
    \/ \E msg \in ConvErrorSet : StreamConvFail(a, msg)
    \/ StreamOpenOk(a)
    \/ \E msg \in OpenErrorSet : StreamOpenFail(a, msg)
    \/ \E line \in LineSet : StreamRead(a, line)
    \/ StreamEof(a)
    \/ \E msg \in ReadErrorSet : StreamReadFail(a, msg)
    \/ StreamCloseOk(a)
    \/ \E msg \in CloseErrors : StreamCloseFail(a, msg)
(***************************************************************************)
(* query_agent (with _send_message_and_collect inlined).                   *)
(***************************************************************************)
Querying == endpoint \in {"query", "query_agent"}

\* invoke_investigator_api: the reasoning agent's result completes the response
QueryReturns(a, res) ==
    /\ ret' = [ret EXCEPT ![a] = res]
    /\ IF endpoint = "query" /\ a = Reasoning
       THEN /\ response' = [data_results |-> data_results, investigation_result |-> res]
            /\ genpc' = "done"
       ELSE UNCHANGED <<response, genpc>>

\* query_agent's except clause
QueryExcept(a, at, msg, ln) ==
    /\ sess' = [sess EXCEPT ![a].pc = "done", ![a].lines = @ \o ln]
    /\ QueryReturns(a, ExceptReturn(a, msg))
    /\ fault' = [fault EXCEPT ![a] = [at |-> at, msg |-> msg]]
    /\ UNCHANGED <<endpoint, backend, requests, built, queue, results, runpc, data_results, prompt, feed, sent>>

\* _send_message_and_collect returned: the success dict; the client closes
QueryFinish(a, acc, ln) ==
    /\ sess' = [sess EXCEPT ![a].pc = "closing", ![a].acc = acc, ![a].lines = @ \o ln,
                            ![a].result = SuccessResult(a, acc)]
    /\ UNCHANGED <<endpoint, backend, requests, built, ret, queue, results, runpc, genpc, data_results, prompt,
                   feed, response, sent, fault>>

QueryStart(a) ==
    /\ Querying /\ sess[a].pc = "new" /\ Started(a)
    /\ sess' = [sess EXCEPT ![a].pc = "conv"]
    /\ PostConversation(a)
    /\ UNCHANGED <<endpoint, backend, built, ret, queue, results, runpc, genpc, data_results, prompt,
                   feed, response, sent, fault>>

QueryConvOk(a) ==
    /\ Querying /\ sess[a].pc = "conv"
    /\ sess' = [sess EXCEPT ![a].pc = "open"]
    /\ PostMessage(a)
    /\ UNCHANGED <<endpoint, backend, built, ret, queue, results, runpc, genpc, data_results, prompt,
                   feed, response, sent, fault>>

QueryConvFail(a, msg) ==
    /\ Querying /\ MayFail /\ sess[a].pc = "conv"
    /\ QueryExcept(a, "conv", msg, <<>>)

QueryOpenOk(a) ==
    /\ Querying /\ sess[a].pc = "open"
    /\ sess' = [sess EXCEPT ![a].pc = "read"]
    /\ UNCHANGED <<endpoint, backend, requests, built, ret, queue, results, runpc, genpc, data_results, prompt,
                   feed, response, sent, fault>>

QueryOpenFail(a, msg) ==
    /\ Querying /\ MayFail /\ sess[a].pc = "open"
    /\ QueryExcept(a, "open", msg, <<>>)

QueryRead(a, line) ==
    /\ Querying /\ sess[a].pc = "read" /\ MayRead(a)
    /\ LET st == CollectLine(Accumulators(a), line) IN
       CASE st.ctl = "next" ->
              /\ sess' = [sess EXCEPT ![a].acc = st.acc, ![a].lines = Append(@, line)]
              /\ UNCHANGED <<endpoint, backend, requests, built, ret, queue, results, runpc, genpc, data_results,
                             prompt, feed, response, sent, fault>>
         [] st.ctl = "break" -> QueryFinish(a, st.acc, <<line>>)
         [] st.ctl = "raise" -> QueryExcept(a, "decode", st.msg, <<line>>)

QueryEof(a) ==
    /\ Querying /\ sess[a].pc = "read"
    /\ QueryFinish(a, Accumulators(a), <<>>)

QueryReadFail(a, msg) ==
    /\ Querying /\ MayFail /\ sess[a].pc = "read"
    /\ QueryExcept(a, "read", msg, <<>>)

QueryCloseOk(a) ==
    /\ Querying /\ sess[a].pc = "closing"
    /\ sess' = [sess EXCEPT ![a].pc = "done"]
    /\ QueryReturns(a, sess[a].result)
    /\ UNCHANGED <<endpoint, backend, requests, built, queue, results, runpc, data_results, prompt, feed, sent,
                   fault>>

QueryCloseFail(a, msg) ==
    /\ Querying /\ MayFail /\ sess[a].pc = "closing"
    /\ QueryExcept(a, "close", msg, <<>>)

query_agent(a) ==
    \/ QueryStart(a)
    \/ QueryConvOk(a)
    \/ \E msg \in ConvErrorSet : QueryConvFail(a, msg)
    \/ QueryOpenOk(a)
    \/ \E msg \in OpenErrorSet : QueryOpenFail(a, msg)
    \/ \E line \in LineSet : QueryRead(a, line)
    \/ QueryEof(a)
    \/ \E msg \in ReadErrorSet : QueryReadFail(a, msg)
    \/ QueryCloseOk(a)
    \/ \E msg \in CloseErrors : QueryCloseFail(a, msg)

(***************************************************************************)
(* stream_all_agents: run_agents and the consumer loop, with               *)
(* event_generator's Phase-1 loop around it.                               *)
(***************************************************************************)
\* run_agents resumes from gather: results filled, close marker put
run_agents ==
    /\ endpoint = "stream" /\ runpc = "gather"
    /\ GatherReady(data_agents, ret)
    /\ results' = ProcessedResults(data_agents, ret)
    /\ queue' = [queue EXCEPT ![1] = QueuePut(@, None)]
    /\ runpc' = "done"
    /\ UNCHANGED <<endpoint, backend, requests, built, sess, ret, genpc, data_results, prompt, feed, response,
                   sent, fault>>

\* a phase_complete event that always carries the Phase-1 results
PhaseCompleteWithResults(phase, data) ==
    [event |-> "phase_complete", phase |-> phase, data |-> [results |-> results]]

\* the event stream_all_agents yields after its loop
PhaseComplete(phase, data) == [event |-> "phase_complete", phase |-> phase, data |-> data]

\* queue.get() handed out an event: yielded, and yielded on to the caller
Phase1Event ==
    /\ endpoint = "stream" /\ genpc = "phase1"
    /\ queue[1] # <<>> /\ QueueHead(queue[1]) # None
    /\ feed' = Append(feed, FeedItem(QueueHead(queue[1])))
    /\ queue' = [queue EXCEPT ![1] = QueueRest(@)]
    /\ UNCHANGED <<endpoint, backend, requests, built, sess, ret, results, runpc, genpc, data_results, prompt,
                   response, sent, fault>>

\* queue.get() handed out None: break, await task, yield phase_complete;
\* event_generator captures the results and yields the event on
Phase1Complete ==
    /\ endpoint = "stream" /\ genpc = "phase1"
    /\ queue[1] # <<>> /\ QueueHead(queue[1]) = None
    /\ runpc = "done"
    /\ LET event == PhaseComplete(1, [results |-> results]) IN
       /\ data_results' = event.data.results
       /\ feed' = Append(feed, FeedItem(event))
    /\ queue' = [queue EXCEPT ![1] = QueueRest(@)]
    /\ genpc' = "phase1_end"
    /\ UNCHANGED <<endpoint, backend, requests, built, sess, ret, results, runpc, prompt, response, sent, fault>>

(***************************************************************************)
(* event_generator, Phase 2.                                               *)
(***************************************************************************)
\* a generator that goes on to Phase 2 only when no Phase-1 result is an error
StartPhase2IfAllSucceeded ==
    /\ endpoint = "stream" /\ genpc = "phase1_end"
    /\ \A i \in 1..Len(data_results) : data_results[i].status = "success"
    /\ prompt' = build_investigation_prompt(data_results)
    /\ sess' = [sess EXCEPT ![Reasoning].pc = "new"]
    /\ genpc' = "phase2"
    /\ UNCHANGED <<endpoint, backend, requests, built, ret, queue, results, runpc, data_results, feed,
                   response, sent, fault>>

\* the Phase-1 loop is over: prompt, reasoning agent, queue, run_investigator task
StartPhase2 ==
    /\ endpoint = "stream" /\ genpc = "phase1_end"
    /\ prompt' = build_investigation_prompt(data_results)
    /\ sess' = [sess EXCEPT ![Reasoning].pc = "new"]
    /\ genpc' = "phase2"
    /\ UNCHANGED <<endpoint, backend, requests, built, ret, queue, results, runpc, data_results, feed, response,
                   sent, fault>>

Phase2Event ==
    /\ endpoint = "stream" /\ genpc = "phase2"
    /\ queue[2] # <<>> /\ QueueHead(queue[2]) # None
    /\ feed' = Append(feed, FeedItem(QueueHead(queue[2])))
    /\ queue' = [queue EXCEPT ![2] = QueueRest(@)]
    /\ UNCHANGED <<endpoint, backend, requests, built, sess, ret, results, runpc, genpc, data_results, prompt,
                   response, sent, fault>>

\* None: break, await task, yield the Phase-2 phase_complete
Phase2Complete ==
    /\ endpoint = "stream" /\ genpc = "phase2"
    /\ queue[2] # <<>> /\ QueueHead(queue[2]) = None
    /\ ret[Reasoning] # Pending
    /\ feed' = Append(feed, FeedItem(PhaseComplete(2, EmptyDict)))
    /\ queue' = [queue EXCEPT ![2] = QueueRest(@)]
    /\ genpc' = "final"
    /\ UNCHANGED <<endpoint, backend, requests, built, sess, ret, results, runpc, data_results, prompt, response,
                   sent, fault>>

\* yield {"data": "[DONE]"}
Finish ==
    /\ endpoint = "stream" /\ genpc = "final"
    /\ feed' = Append(feed, EndMarker)
    /\ genpc' = "done"
    /\ UNCHANGED <<endpoint, backend, requests, built, sess, ret, queue, results, runpc, data_results, prompt,
                   response, sent, fault>>

(***************************************************************************)
(* invoke_investigator_api.                                                *)
(***************************************************************************)
\* query_all_agents returns; prompt; query_agent(reasoning_agent) runs up to its
\* first network call
query_all_agents ==
    /\ endpoint = "query" /\ genpc = "phase1"
    /\ GatherReady(data_agents, ret)
    /\ data_results' = ProcessedResults(data_agents, ret)
    /\ prompt' = build_investigation_prompt(data_results')
    /\ sess' = [sess EXCEPT ![Reasoning].pc = "conv"]
    /\ PostConversation(Reasoning)
    /\ genpc' = "phase2"
    /\ runpc' = "done"
    /\ UNCHANGED <<endpoint, backend, built, ret, queue, results, feed, response, sent, fault>>

(***************************************************************************)
(* Specifications.                                                         *)
(***************************************************************************)
Next ==
    \/ \E a \in AgentNames : stream_agent(a)
    \/ \E a \in AgentNames : query_agent(a)
    \/ run_agents
    \/ Phase1Event
    \/ Phase1Complete
    \/ StartPhase2
    \/ Phase2Event
    \/ Phase2Complete
    \/ Finish
    \/ query_all_agents

Spec == Init /\ [][Next]_vars

\* one stream_agent or one query_agent call on its own
NextSession ==
    \/ stream_agent(data_agents[1])
    \/ query_agent(data_agents[1])

SpecSession == InitSession /\ [][NextSession]_vars

\* the pipeline on a backend whose response streams end at once
NextOutcomes ==
    \/ \E a \in AgentNames :
         \/ StreamStart(a)
         \/ StreamConvOk(a)
         \/ \E msg \in ConvErrorSet : StreamConvFail(a, msg)
         \/ StreamOpenOk(a)
         \/ \E msg \in OpenErrorSet : StreamOpenFail(a, msg)
         \/ StreamEof(a)
         \/ \E msg \in ReadErrorSet : StreamReadFail(a, msg)
         \/ StreamCloseOk(a)
         \/ \E msg \in CloseErrors : StreamCloseFail(a, msg)
    \/ \E a \in AgentNames :
         \/ QueryStart(a)
         \/ QueryConvOk(a)
         \/ \E msg \in ConvErrorSet : QueryConvFail(a, msg)
         \/ QueryOpenOk(a)
         \/ \E msg \in OpenErrorSet : QueryOpenFail(a, msg)
         \/ QueryEof(a)
         \/ \E msg \in ReadErrorSet : QueryReadFail(a, msg)
         \/ QueryCloseOk(a)
         \/ \E msg \in CloseErrors : QueryCloseFail(a, msg)
    \/ run_agents
    \/ Phase1Event
    \/ Phase1Complete
    \/ StartPhase2
    \/ Phase2Event
    \/ Phase2Complete
    \/ Finish
    \/ query_all_agents

SpecOutcomes == InitOutcomes /\ [][NextOutcomes]_vars

\* the pipeline on a backend that does not fail
NextConcurrent ==
    \/ \E a \in AgentNames :
         \/ StreamStart(a)
         \/ StreamConvOk(a)
         \/ StreamOpenOk(a)
         \/ \E line \in LineSet : StreamRead(a, line)
         \/ StreamEof(a)
         \/ StreamCloseOk(a)
    \/ \E a \in AgentNames :
         \/ QueryStart(a)
         \/ QueryConvOk(a)
         \/ QueryOpenOk(a)
         \/ \E line \in LineSet : QueryRead(a, line)
         \/ QueryEof(a)
         \/ QueryCloseOk(a)
    \/ run_agents
    \/ Phase1Event
    \/ Phase1Complete
    \/ StartPhase2
    \/ Phase2Event
    \/ Phase2Complete
    \/ Finish
    \/ query_all_agents

SpecConcurrent == InitConcurrent /\ [][NextConcurrent]_vars

\* a step of a streaming session on a stream that holds no line
StreamStep(a) ==
    \/ StreamStart(a)
    \/ StreamConvOk(a)
    \/ \E msg \in ConvErrorSet : StreamConvFail(a, msg)
    \/ StreamOpenOk(a)
    \/ \E msg \in OpenErrorSet : StreamOpenFail(a, msg)
    \/ StreamEof(a)
    \/ \E msg \in ReadErrorSet : StreamReadFail(a, msg)
    \/ StreamCloseOk(a)
    \/ \E msg \in CloseErrors : StreamCloseFail(a, msg)

\* the streaming endpoint
NextStream ==
    \/ \E a \in AgentNames : StreamStep(a)
    \/ run_agents
    \/ Phase1Event
    \/ Phase1Complete
    \/ StartPhase2
    \/ Phase2Event
    \/ Phase2Complete
    \/ Finish

\* the event loop runs every task that is ready, and every backend call of a
\* session ends, by returning, failing or timing out
Fairness ==
    /\ \A a \in AgentNames : WF_vars(StreamStep(a))
    /\ WF_vars(run_agents)
    /\ WF_vars(Phase1Event) /\ WF_vars(Phase1Complete)
    /\ WF_vars(StartPhase2)
    /\ WF_vars(Phase2Event) /\ WF_vars(Phase2Complete)
    /\ WF_vars(Finish)

SpecFair == InitStream /\ [][NextStream]_vars /\ Fairness

(***************************************************************************)
(* build_investigation_prompt called on its own.                           *)
(***************************************************************************)
\* the permutations of 1..n
Reorderings(n) ==
    {p \in [1..n -> 1..n] : \A i, j \in 1..n : p[i] = p[j] => i = j}

\* the list rs taken in the order p
Permuted(rs, p) == [i \in 1..Len(rs) |-> rs[p[i]]]

\* a call of build_investigation_prompt on the list at hand
BuildPrompt ==
    /\ endpoint = "build_investigation_prompt" /\ Len(built) < MaxCalls
    /\ prompt' = build_investigation_prompt(data_results)
    /\ built' = Append(built, [results |-> data_results, text |-> prompt'])
    /\ UNCHANGED <<endpoint, backend, requests, sess, ret, queue, results, runpc, genpc,
                   data_results, feed, response, sent, fault>>

\* the caller reorders its list between two calls
PermuteResults(p) ==
    /\ endpoint = "build_investigation_prompt" /\ Len(built) = 1
    /\ data_results = built[1].results
    /\ Permuted(data_results, p) # data_results
    /\ data_results' = Permuted(data_results, p)
    /\ UNCHANGED <<endpoint, backend, requests, built, sess, ret, queue, results, runpc,
                   genpc, prompt, feed, response, sent, fault>>

NextPrompt ==
    \/ BuildPrompt
    \/ \E p \in Reorderings(Len(data_results)) : PermuteResults(p)

SpecPrompt == InitPrompt /\ [][NextPrompt]_vars
(***************************************************************************)
(* Vocabulary of the properties.                                           *)
(***************************************************************************)
IsPrefix(s, t) == Len(s) <= Len(t) /\ SubSeq(t, 1, Len(s)) = s

\* the events of the feed, decoded; the end marker decodes to no event
FeedEvents == [i \in 1..Len(feed) |-> IF IsJson(feed[i]) THEN Decoded(feed[i]) ELSE None]

IsOf(e, a) == "agent" \in DOMAIN e /\ e.agent = a
IsKind(e, kind) == e.event = kind

\* the events of agent a in a sequence of events, in order
OfAgent(evs, a) == SelectSeq(evs, LAMBDA e : IsOf(e, a))
FeedOf(a) == OfAgent(FeedEvents, a)

\* positions of the feed
FeedPos == 1..Len(feed)
IsPhase1Complete(e) == IsKind(e, "phase_complete") /\ e.phase = 1
\* agent a's agent_complete is item i of the feed
CompleteAt(a, i) == IsOf(FeedEvents[i], a) /\ IsKind(FeedEvents[i], "agent_complete")

\* a session coroutine has returned a result dict
Terminal(a) == ret[a].status \in {"success", "error"}

\* the delta payloads of the text-delta lines of a stream, in order
RECURSIVE DeltasOf(_)
DeltasOf(lines) ==
    IF lines = <<>> THEN <<>>
    ELSE LET l == lines[1] IN
         (IF l.prefix /\ l.form = "object" /\ Get(l.obj, "type", "") = "text-delta"
          THEN <<Get(l.obj, "delta", "")>> ELSE <<>>) \o DeltasOf(Tail(lines))

\* the delta payloads of the text_delta events of a sequence of events, in order
RECURSIVE EventDeltas(_)
EventDeltas(evs) ==
    IF evs = <<>> THEN <<>>
    ELSE (IF IsKind(evs[1], "text_delta") THEN <<evs[1].data.delta>> ELSE <<>>)
         \o EventDeltas(Tail(evs))

\* string concatenation of d1..dn, from the left
RECURSIVE Concat(_, _)
Concat(prefix, ds) == IF ds = <<>> THEN prefix ELSE Concat(prefix \o ds[1], Tail(ds))

(***************************************************************************)
(* C1: in the streaming pipeline no event tagged phase 2 is delivered      *)
(* before the Phase-1 phase_complete event has been delivered, also when   *)
(* one Phase-1 session hangs until its timeout and the others finish       *)
(* at once.                                                                *)
(***************************************************************************)
C1_Phase2AfterBarrier ==
    \A i \in FeedPos :
        (IsJson(feed[i]) /\ FeedEvents[i].phase = 2)
            => \E j \in 1..(i - 1) : IsPhase1Complete(FeedEvents[j])

\* a Phase-1 session timed out after the two others had completed, and the
\* reasoning agent's agent_start has been delivered
C1_Witness ==
    /\ endpoint = "stream"
    /\ \E a \in DataNames :
         /\ fault[a] = [at |-> "open", msg |-> "ReadTimeout"]
         /\ \A b \in DataNames \ {a} : fault[b].at = "none"
         /\ \E i \in FeedPos :
              /\ CompleteAt(a, i)
              /\ \A b \in DataNames \ {a} : \E j \in 1..(i - 1) : CompleteAt(b, j)
    /\ \E i \in FeedPos : IsOf(FeedEvents[i], Reasoning) /\ FeedEvents[i].phase = 2

(***************************************************************************)
(* C2: at both endpoints the Phase-2 session is not started (its task is   *)
(* not created, no conversation is asked for, no agent_start is put)       *)
(* until every Phase-1 session has returned a success or an error result.  *)
(***************************************************************************)
C2_Phase2AfterAllTerminal ==
    (sess[Reasoning].pc # "idle" \/ sent[Reasoning] # <<>>)
        => \A a \in DataNames : Terminal(a)

\* the reasoning session waits for its conversation after a Phase 1 in which one
\* session failed and another succeeded
C2_Witness ==
    /\ sess[Reasoning].pc = "conv"
    /\ \E a, b \in DataNames : ret[a].status = "error" /\ ret[b].status = "success"

(***************************************************************************)
(* C3: when exactly one of the three Phase-1 streaming sessions raises     *)
(* while its stream is read and the two others meet no failure, the two    *)
(* others return success with the text of their own deltas, the failed one *)
(* returns status error, and the pipeline goes on to Phase 2.              *)
(***************************************************************************)
C3_Isolation ==
    \A a \in DataNames :
        ( /\ endpoint = "stream"
          /\ fault[a].at = "read"
          /\ \A b \in DataNames \ {a} : fault[b].at = "none" /\ ret[b] # Pending )
        => /\ ret[a].status = "error"
           /\ \A b \in DataNames \ {a} :
                /\ ret[b].status = "success"
                /\ ret[b].response = Concat("", DeltasOf(sess[b].lines))
           /\ runpc = "done" =>
                /\ Len(results) = Len(data_agents)
                /\ \A i \in 1..Len(data_agents) :
                     results[i].status = (IF data_agents[i] = a THEN "error" ELSE "success")
           /\ genpc \in {"phase1", "phase1_end"}
                => ENABLED (run_agents \/ Phase1Event \/ Phase1Complete \/ StartPhase2)

\* one session failed after a delta, the two others succeeded, Phase 2 is running
C3_Witness ==
    /\ endpoint = "stream" /\ genpc = "phase2"
    /\ \E a \in DataNames :
         /\ fault[a].at = "read" /\ sess[a].lines = <<TextDelta("a")>>
         /\ \A b \in DataNames \ {a} : ret[b].status = "success"

(***************************************************************************)
(* C4: a session (query_agent or stream_agent) never raises to its caller: *)
(* a failure of the conversation request, of the opening of the stream, of *)
(* a read, of the decoding of a line or of the closing of the client ends  *)
(* the session with a returned result of status error whose error field is *)
(* the failure's message.                                                  *)
(***************************************************************************)
C4_NeverRaises ==
    LET a == data_agents[1] IN
    /\ ret[a].status \in {"pending", "success", "error"}
    /\ fault[a].at # "none"
         => /\ sess[a].pc = "done"
            /\ ret[a].status = "error"
            /\ ret[a].error = fault[a].msg

\* an exception the code does not anticipate (a payload that is no JSON object)
\* ended the session
C4_Witness ==
    LET a == data_agents[1] IN
    /\ fault[a] = [at |-> "decode", msg |-> AttributeError]
    /\ ret[a].status = "error"

(***************************************************************************)
(* C5: every run of stream_agent puts an agent_complete event, and it is   *)
(* the last event the session puts: no event of the agent follows its      *)
(* agent_complete.                                                         *)
(***************************************************************************)
C5_CompleteIsLast ==
    LET a == data_agents[1]
        s == sent[a] IN
    endpoint = "stream_agent" =>
        /\ ret[a] # Pending => s # <<>> /\ IsKind(s[Len(s)], "agent_complete")
        /\ \A i \in 1..(Len(s) - 1) : ~IsKind(s[i], "agent_complete")

(***************************************************************************)
(* C6: in the feed of stream_all_agents the events of each agent appear in *)
(* the order in which its session put them, whatever the interleaving;     *)
(* between the events of different agents no order is imposed.             *)
(***************************************************************************)
C6_PerAgentFifo ==
    endpoint = "stream" => \A a \in DataNames : IsPrefix(FeedOf(a), sent[a])

\* three events of one agent delivered in order, with the agent_complete of an
\* agent later in the list delivered before the agent_complete of an earlier one
C6_Witness ==
    /\ endpoint = "stream"
    /\ \E a \in DataNames : Len(FeedOf(a)) >= 3
    /\ \E i, j \in FeedPos :
         /\ i < j
         /\ CompleteAt(data_agents[3], i)
         /\ CompleteAt(data_agents[1], j)

(***************************************************************************)
(* C7: when a session's stream delivers the text-delta payloads d1..dn in  *)
(* that order and completes, the response of the result is d1 + ... + dn,  *)
(* and a streaming session has put one text_delta event per delta,         *)
(* carrying d1..dn in that order.                                          *)
(***************************************************************************)
C7_TextInOrder ==
    LET a == data_agents[1]
        ds == DeltasOf(sess[a].lines) IN
    /\ sess[a].result # Pending => sess[a].result.response = Concat("", ds)
    /\ endpoint = "stream_agent" /\ sess[a].pc \in {"read", "closing"}
         => EventDeltas(sent[a]) = ds

\* the stream delivered "a", "b", "a" and completed
C7_Witness ==
    LET a == data_agents[1] IN
    /\ endpoint = "stream_agent"
    /\ sess[a].lines = <<TextDelta("a"), TextDelta("b"), TextDelta("a")>>
    /\ sess[a].pc = "closing"
    /\ sess[a].result.response = "aba"

(***************************************************************************)
(* C8: the results list of the Phase-1 phase_complete event, and the list  *)
(* query_all_agents returns, has one entry per input agent, entry i being  *)
(* the result of agent i, in whatever order the sessions completed.        *)
(***************************************************************************)
InInputOrder(rs) ==
    /\ Len(rs) = Len(data_agents)
    /\ \A i \in 1..Len(data_agents) :
         rs[i].agent = data_agents[i] /\ rs[i] = ret[data_agents[i]]

C8_ResultsInInputOrder ==
    /\ \A i \in FeedPos :
         IsPhase1Complete(FeedEvents[i]) => InInputOrder(FeedEvents[i].data.results)
    /\ endpoint = "query" /\ genpc # "phase1" => InInputOrder(data_results)

\* phase_complete delivered after the last agent of the list completed first
C8_Witness ==
    /\ \E i \in FeedPos : IsPhase1Complete(FeedEvents[i])
    /\ \E i, j, k \in FeedPos :
         /\ i < j /\ j < k
         /\ CompleteAt(data_agents[3], i)
         /\ CompleteAt(data_agents[2], j)
         /\ CompleteAt(data_agents[1], k)

(***************************************************************************)
(* C9: stream_all_agents puts the close marker once, after every session   *)
(* of the phase has returned, and yields one phase_complete event, as its  *)
(* last item, once the marker has been taken from the queue: no agent      *)
(* event of the phase is yielded after phase_complete.                     *)
(***************************************************************************)
Count(evs, Test(_)) == Len(SelectSeq(evs, Test))
\* close markers put so far on the Phase-1 queue: those waiting and the one taken
MarkersPut ==
    Count(queue[1], LAMBDA e : e = None) + (IF genpc = "phase1" THEN 0 ELSE 1)

C9_CloseThenPhaseComplete ==
    endpoint = "stream" =>
        /\ MarkersPut <= 1
        /\ MarkersPut = 1 <=> runpc = "done"
        /\ MarkersPut = 1 => \A a \in DataNames : ret[a] # Pending
        /\ queue[1] # <<>> /\ genpc = "phase1"
             => \A i \in 1..(Len(queue[1]) - 1) : queue[1][i] # None
        /\ Count(FeedEvents, IsPhase1Complete) = (IF genpc = "phase1" THEN 0 ELSE 1)
        /\ genpc # "phase1" => queue[1] = <<>>
        /\ \A i, j \in FeedPos :
             IsPhase1Complete(FeedEvents[i]) /\ i < j /\ IsJson(feed[j])
                => FeedEvents[j].phase = 2

\* phase_complete delivered after a session that failed and one that read a line
C9_Witness ==
    /\ endpoint = "stream" /\ genpc = "phase1_end"
    /\ IsPhase1Complete(FeedEvents[Len(feed)])
    /\ Len(feed) >= 8
    /\ \E a \in DataNames : ret[a].status = "error"

(***************************************************************************)
(* C10: the shared queue loses and duplicates nothing: at any time the     *)
(* events an agent's session has put are those delivered followed by those *)
(* still queued, and once phase_complete is delivered every event put has  *)
(* been delivered once, however far the consumer lagged.                   *)
(***************************************************************************)
C10_NothingLostOrDuplicated ==
    endpoint = "stream" =>
        \A a \in DataNames :
            /\ FeedOf(a) \o OfAgent(queue[1], a) = sent[a]
            /\ genpc # "phase1" => FeedOf(a) = sent[a]

\* every session has returned and the marker is queued before the consumer has
\* taken a single event
C10_Witness ==
    /\ endpoint = "stream" /\ runpc = "done" /\ feed = <<>>
    /\ Len(queue[1]) >= 8

(***************************************************************************)
(* C11: when a streaming session fails, the feed holds for that agent an   *)
(* error event with the failure message and then an agent_complete event   *)
(* with response None and the same message as error; the events the agent  *)
(* put before the failure are in the feed ahead of the two.                *)
(***************************************************************************)
\* the events stream_agent puts while it reads the lines of a stream
RECURSIVE PutsOf(_, _, _)
PutsOf(agent, phase, lines) ==
    IF lines = <<>> THEN <<>>
    ELSE StreamLine(agent, phase, EmptyAcc, lines[1]).put
         \o PutsOf(agent, phase, Tail(lines))

\* every event of agent a's session has been delivered to the caller
Delivered(a) ==
    IF a \in DataNames THEN genpc # "phase1" ELSE genpc \in {"final", "done"}

\* what agent a had put before its except clause ran
BeforeFailure(a) ==
    <<[event |-> "agent_start", agent |-> a, phase |-> PhaseOf(a), data |-> <<>>]>>
    \o PutsOf(a, PhaseOf(a), sess[a].lines)
    \o (IF fault[a].at = "close"
        THEN <<[event |-> "agent_complete", agent |-> a, phase |-> PhaseOf(a),
                data |-> [response |-> sess[a].result.response]]>>
        ELSE <<>>)

C11_ErrorThenComplete ==
    endpoint = "stream" =>
        \A a \in DataNames \cup {Reasoning} :
            LET f == FeedOf(a)
                n == Len(f) IN
            (fault[a].at # "none" /\ Delivered(a)) =>
                /\ n >= 3
                /\ f[n - 1].event = "error"
                /\ f[n - 1].data = [message |-> fault[a].msg]
                /\ f[n].event = "agent_complete"
                /\ f[n].data = [response |-> PyNone, error |-> fault[a].msg]
                /\ SubSeq(f, 1, n - 2) = BeforeFailure(a)

\* a session that had put a text_delta failed on its next read, and its four
\* events have been delivered
C11_Witness ==
    /\ endpoint = "stream" /\ genpc # "phase1"
    /\ \E a \in DataNames :
         /\ fault[a].at = "read"
         /\ sess[a].lines = <<TextDelta("a")>>
         /\ Len(FeedOf(a)) = 4
         /\ FeedOf(a)[2].event = "text_delta"

(***************************************************************************)
(* C12: whatever the outcomes of the Phase-1 sessions, all of them failing *)
(* included, the phase is never aborted: once every Phase-1 session is     *)
(* terminal the pipeline can always take its next step up to the start of  *)
(* the Phase-2 session, the Phase-1 phase_complete carries the results of  *)
(* the sessions, and the Phase-2 session is started with the prompt built  *)
(* from those results.                                                     *)
(***************************************************************************)
\* what the Phase-1 sessions returned, in input order
Phase1Returned == [i \in 1..Len(data_agents) |-> ret[data_agents[i]]]

C12_PhaseNeverAborted ==
    /\ ((\A a \in DataNames : Terminal(a)) /\ genpc \in {"phase1", "phase1_end"})
          => ENABLED (run_agents \/ Phase1Event \/ Phase1Complete \/ StartPhase2
                      \/ query_all_agents)
    /\ sess[Reasoning].pc # "idle" =>
          /\ \A a \in DataNames : Terminal(a)
          /\ prompt = build_investigation_prompt(Phase1Returned)
          /\ endpoint = "stream" =>
                \E i \in FeedPos :
                    /\ IsPhase1Complete(FeedEvents[i])
                    /\ FeedEvents[i].data.results = Phase1Returned

\* the three Phase-1 sessions failed, each at another call, and the reasoning
\* session of the streaming endpoint has been started
C12_Witness ==
    /\ endpoint = "stream"
    /\ fault[data_agents[1]].at = "conv"
    /\ fault[data_agents[2]].at = "open"
    /\ fault[data_agents[3]].at = "read"
    /\ sess[Reasoning].pc = "conv"

(***************************************************************************)
(* C13: whatever the outcome of the Phase-2 session, the streaming feed    *)
(* ends with one phase_complete event of phase 2 with an empty payload,    *)
(* delivered after the Phase-2 agent_complete, and then the [DONE] end     *)
(* marker as its last item; nothing is delivered after the end marker.     *)
(***************************************************************************)
IsPhase2Complete(e) == IsKind(e, "phase_complete") /\ e.phase = 2

C13_FeedEnding ==
    endpoint = "stream" =>
        LET n == Len(feed) IN
        /\ Count(FeedEvents, IsPhase2Complete)
             = (IF genpc \in {"final", "done"} THEN 1 ELSE 0)
        /\ \A i \in FeedPos :
             IsPhase2Complete(FeedEvents[i]) =>
                /\ DOMAIN FeedEvents[i].data = {}
                /\ \E j \in 1..(i - 1) : CompleteAt(Reasoning, j)
                /\ \A j \in (i + 1)..n : ~IsJson(feed[j])
        /\ \A i \in FeedPos :
             ~IsJson(feed[i]) =>
                /\ feed[i].data = [text |-> "[DONE]"]
                /\ i = n /\ i >= 2
                /\ IsPhase2Complete(FeedEvents[i - 1])
        /\ genpc = "done" =>
             /\ n >= 1 /\ ~IsJson(feed[n])
             /\ ~ENABLED (Phase1Event \/ Phase1Complete \/ Phase2Event
                          \/ Phase2Complete \/ Finish)

\* the feed is over after a Phase 2 whose session failed to open its stream
C13_Witness ==
    /\ endpoint = "stream" /\ genpc = "done"
    /\ fault[Reasoning] = [at |-> "open", msg |-> "ReadTimeout"]
    /\ ret[Reasoning].status = "error"
    /\ feed[Len(feed)] = [data |-> [text |-> "[DONE]"]]

(***************************************************************************)
(* C14: a data line whose payload is not JSON, met between two valid       *)
(* text-delta lines, neither ends the session nor makes it fail: decoding  *)
(* goes on with the next line, the result has status success and its       *)
(* response is the concatenation of the two deltas.                        *)
(***************************************************************************)
\* the stream read so far is a delta, a payload that is not JSON, a delta
GarbageBetween(ls, x, y) == ls = <<TextDelta(x), GarbageLine, TextDelta(y)>>

C14_GarbageTolerated ==
    LET a == data_agents[1]
        ls == sess[a].lines IN
    /\ (fault[a].at = "decode" /\ ls # <<>>) => ls[Len(ls)] # GarbageLine
    /\ \A x, y \in {"a", "b"} :
         GarbageBetween(ls, x, y) =>
            /\ sess[a].acc.text_parts = <<x, y>>
            /\ sess[a].result # Pending =>
                  sess[a].result.status = "success" /\ sess[a].result.response = x \o y
            /\ (ret[a] # Pending /\ fault[a].at = "none") =>
                  ret[a].status = "success" /\ ret[a].response = x \o y
            /\ endpoint = "stream_agent" =>
                  /\ EventDeltas(sent[a]) = <<x, y>>
                  /\ \A i \in 1..Len(sent[a]) :
                        IsKind(sent[a][i], "error") => fault[a].at # "none"

\* a streaming session returned "ab" from a stream with garbage between "a" and "b"
C14_Witness ==
    LET a == data_agents[1] IN
    /\ endpoint = "stream_agent"
    /\ GarbageBetween(sess[a].lines, "a", "b")
    /\ ret[a].status = "success" /\ ret[a].response = "ab"

(***************************************************************************)
(* C15: every data payload that is not a structured record, whether it is  *)
(* no JSON at all or JSON for something other than an object, is a         *)
(* recoverable failure of its line: the line is dropped, no event is put   *)
(* for it, decoding goes on and the session is not marked failed.          *)
(***************************************************************************)
\* a data line whose payload is not a JSON object
Malformed(line) == line.prefix /\ line.form \in {"garbage", "scalar"}

C15_MalformedDropped ==
    LET a == data_agents[1]
        ls == sess[a].lines IN
    (ls # <<>> /\ Malformed(ls[Len(ls)])) =>
        /\ fault[a].at # "decode"
        /\ sess[a].acc.text_parts = DeltasOf(ls)
        /\ sess[a].pc = "done" => fault[a].at \in {"read", "close"} \/ ret[a].status = "success"
        /\ endpoint = "stream_agent" /\ sess[a].pc = "read" =>
              Tail(sent[a])
                = PutsOf(a, PhaseOf(a), SelectSeq(ls, LAMBDA l : ~Malformed(l)))

(***************************************************************************)
(* C16: once a session has read the line "data: [DONE]" it processes no    *)
(* later line of the stream: whatever the backend sends after the sentinel *)
(* is not read, changes no accumulator and puts no event, and the session  *)
(* ends with a success result.                                             *)
(***************************************************************************)
C16_SentinelStops ==
    LET a == data_agents[1]
        ls == sess[a].lines
        n == Len(ls) IN
    /\ \A i \in 1..(n - 1) : ls[i] # DoneLine
    /\ (n >= 1 /\ ls[n] = DoneLine) =>
         /\ sess[a].pc \in {"closing", "done"}
         /\ ~ENABLED (\E line \in Lines : StreamRead(a, line) \/ QueryRead(a, line))
         /\ sess[a].acc.text_parts = DeltasOf(SubSeq(ls, 1, n - 1))
         /\ sess[a].result = SuccessResult(a, sess[a].acc)
         /\ (ret[a] # Pending /\ fault[a].at = "none") => ret[a] = sess[a].result
         /\ endpoint = "stream_agent" =>
               SubSeq(sent[a], 1, Len(PutsOf(a, PhaseOf(a), ls)) + 2)
                 = <<[event |-> "agent_start", agent |-> a, phase |-> PhaseOf(a),
                      data |-> <<>>]>>
                   \o PutsOf(a, PhaseOf(a), SubSeq(ls, 1, n - 1))
                   \o <<[event |-> "agent_complete", agent |-> a, phase |-> PhaseOf(a),
                         data |-> [response |-> sess[a].result.response]]>>

\* a streaming session returned "a" after the sentinel that followed a delta
C16_Witness ==
    LET a == data_agents[1] IN
    /\ endpoint = "stream_agent"
    /\ sess[a].lines = <<TextDelta("a"), DoneLine>>
    /\ sess[a].pc = "done"
    /\ ret[a].status = "success" /\ ret[a].response = "a"

(***************************************************************************)
(* C17: for each protocol event decoded from the stream (text-start,       *)
(* text-delta, text-end, tool-input-available, tool-output-available,      *)
(* tool-output-error) a session with a queue updates its accumulators and  *)
(* puts exactly one corresponding event on the queue.                      *)
(***************************************************************************)
ProtocolKinds == {"text-start", "text-delta", "text-end", "tool-input-available",
                  "tool-output-available", "tool-output-error"}
\* a data line that decodes to a protocol event of kind in kinds
IsProtocol(line, kinds) ==
    line.prefix /\ line.form = "object" /\ Get(line.obj, "type", "") \in kinds
CountProtocol(ls, kinds) == Len(SelectSeq(ls, LAMBDA l : IsProtocol(l, kinds)))

C17_OneEventPerProtocolEvent ==
    LET a == data_agents[1]
        ls == sess[a].lines
        acc == sess[a].acc IN
    (endpoint = "stream_agent" /\ sess[a].pc = "read") =>
        /\ Len(acc.text_parts) = CountProtocol(ls, {"text-delta"})
        /\ Len(acc.tool_calls) = CountProtocol(ls, {"tool-input-available"})
        /\ Len(acc.tool_outputs) = CountProtocol(ls, {"tool-output-available"})
        /\ Len(acc.errors) = CountProtocol(ls, {"tool-output-error"})
        /\ Len(Tail(sent[a])) = CountProtocol(ls, ProtocolKinds)

(***************************************************************************)
(* C17, amended: for each protocol event decoded from the stream a session *)
(* with a queue updates its accumulators; it puts exactly one event, of    *)
(* the corresponding kind and in stream order, for text-start, text-delta, *)
(* text-end, tool-output-available and tool-output-error, and no event for *)
(* tool-input-available, which is recorded in tool_calls only.             *)
(***************************************************************************)
EmittingKinds == ProtocolKinds \ {"tool-input-available"}
\* the event kind put for a protocol event type
EventKindOf(type) ==
    CASE type = "text-start" -> "text_start"
      [] type = "text-delta" -> "text_delta"
      [] type = "text-end" -> "text_end"
      [] type = "tool-output-available" -> "tool_output"
      [] type = "tool-output-error" -> "error"

C17_EventPerEmittingKind ==
    LET a == data_agents[1]
        ls == sess[a].lines
        acc == sess[a].acc
        emitting == SelectSeq(ls, LAMBDA l : IsProtocol(l, EmittingKinds))
        put == Tail(sent[a]) IN
    (endpoint = "stream_agent" /\ sess[a].pc = "read") =>
        /\ Len(acc.text_parts) = CountProtocol(ls, {"text-delta"})
        /\ Len(acc.tool_calls) = CountProtocol(ls, {"tool-input-available"})
        /\ Len(acc.tool_outputs) = CountProtocol(ls, {"tool-output-available"})
        /\ Len(acc.errors) = CountProtocol(ls, {"tool-output-error"})
        /\ Len(put) = Len(emitting)
        /\ \A i \in 1..Len(put) :
             /\ put[i].event = EventKindOf(emitting[i].obj.type)
             /\ put[i].agent = a

\* a tool call, its output and a tool error have been read: two events put
C17_Witness ==
    LET a == data_agents[1] IN
    /\ endpoint = "stream_agent" /\ sess[a].pc = "read"
    /\ sess[a].lines = <<ToolInput, ToolOutput, ToolError>>
    /\ Len(sess[a].acc.tool_calls) = 1
    /\ Len(sent[a]) = 3

(***************************************************************************)
(* C18: when a session fails after part of the stream was processed, the   *)
(* error result it returns carries the error description only: response is *)
(* None and tool_calls, tool_outputs and errors are empty, whatever text,  *)
(* tool calls, tool outputs or tool errors had been accumulated.           *)
(***************************************************************************)
C18_ErrorResultBare ==
    LET a == data_agents[1] IN
    fault[a].at # "none" =>
        ret[a] = [agent |-> a, status |-> "error", error |-> fault[a].msg,
                  response |-> PyNone, tool_calls |-> <<>>, tool_outputs |-> <<>>,
                  errors |-> <<>>]

\* a read failed after a delta, a tool output and a tool error had been accumulated
C18_Witness ==
    LET a == data_agents[1] IN
    /\ sess[a].lines = <<TextDelta("a"), ToolOutput, ToolError>>
    /\ sess[a].acc.text_parts = <<"a">>
    /\ Len(sess[a].acc.tool_outputs) = 1 /\ Len(sess[a].acc.errors) = 1
    /\ fault[a].at = "read"
    /\ ret[a].status = "error" /\ ret[a].response = PyNone

(***************************************************************************)
(* C19: no session is blocked or delayed by another: whatever the state of *)
(* the other sessions (failed, hanging on a call) and of the consumer, a   *)
(* session's next step, its puts included, can be taken as soon as the     *)
(* backend answers, a task not yet run can be started, and an event at the *)
(* head of the queue can be delivered while other sessions still run.      *)
(***************************************************************************)
C19_NoSessionBlocked ==
    endpoint = "stream" =>
        /\ \A a \in DataNames :
             /\ sess[a].pc = "new" => \E b \in DataNames : ENABLED StreamStart(b)
             /\ sess[a].pc = "conv" => ENABLED StreamConvOk(a)
             /\ sess[a].pc = "open" => ENABLED StreamOpenOk(a)
             /\ sess[a].pc = "read" => ENABLED StreamEof(a)
             /\ sess[a].pc = "closing" => ENABLED StreamCloseOk(a)
        /\ (genpc = "phase1" /\ queue[1] # <<>> /\ QueueHead(queue[1]) # None)
             => ENABLED Phase1Event

\* the first session hangs on its streaming call, the second has failed, and the
\* third has completed and its agent_complete is already delivered
C19_Witness ==
    /\ endpoint = "stream" /\ genpc = "phase1"
    /\ sess[data_agents[1]].pc = "open"
    /\ ret[data_agents[2]].status = "error"
    /\ ret[data_agents[3]].status = "success"
    /\ \E i \in FeedPos : CompleteAt(data_agents[3], i)

(***************************************************************************)
(* C20: in the streaming pipeline every event delivered during Phase 1     *)
(* carries phase 1 and is delivered as it was put; Phase 2 runs one        *)
(* session, the reasoning agent's, whose events all carry phase 2 and are  *)
(* delivered as they were put; no event carries another phase value.       *)
(***************************************************************************)
\* item i of the feed comes after the Phase-1 phase_complete
AfterPhase1(i) == \E j \in 1..(i - 1) : IsPhase1Complete(FeedEvents[j])

C20_PhaseTags ==
    endpoint = "stream" =>
        /\ \A i \in FeedPos :
             IsJson(feed[i]) =>
                LET e == FeedEvents[i] IN
                /\ e.phase \in {1, 2}
                /\ e.phase = (IF AfterPhase1(i) THEN 2 ELSE 1)
                /\ "agent" \in DOMAIN e =>
                      IF e.phase = 1 THEN e.agent \in DataNames ELSE e.agent = Reasoning
        /\ \A a \in DataNames \cup {Reasoning} :
             /\ IsPrefix(FeedOf(a), sent[a])
             /\ \A i \in 1..Len(sent[a]) :
                  sent[a][i].phase = (IF a = Reasoning THEN 2 ELSE 1)
        /\ \A a \in AgentNames \ (DataNames \cup {Reasoning}) :
             sess[a].pc = "idle" /\ sent[a] = <<>>

\* the feed is over and holds a text_delta of the reasoning agent, tagged phase 2
C20_Witness ==
    /\ endpoint = "stream" /\ genpc = "done"
    /\ \E i \in FeedPos :
         /\ IsJson(feed[i])
         /\ FeedEvents[i].event = "text_delta"
         /\ FeedEvents[i].agent = Reasoning
         /\ FeedEvents[i].phase = 2
    /\ \E i \in FeedPos : IsJson(feed[i]) /\ FeedEvents[i].event = "agent_start"
                             /\ FeedEvents[i].phase = 1

(***************************************************************************)
(* C21: the message sent to the reasoning agent is                         *)
(* build_investigation_prompt of the results list the Phase-1               *)
(* phase_complete event carries (streaming) or query_all_agents returned   *)
(* (non-streaming): the whole list, in input order, never an empty or a    *)
(* partial one.                                                            *)
(***************************************************************************)
\* the results the endpoint received from Phase 1
Phase1Results ==
    IF endpoint = "stream"
    THEN LET i == CHOOSE i \in FeedPos : IsPhase1Complete(FeedEvents[i])
         IN FeedEvents[i].data.results
    ELSE data_results

C21_Phase2Message ==
    \A i \in 1..Len(requests[Reasoning]) :
        LET r == requests[Reasoning][i] IN
        IsChat(r) =>
            /\ endpoint = "stream" => \E j \in FeedPos : IsPhase1Complete(FeedEvents[j])
            /\ r.content = build_investigation_prompt(Phase1Results)
            /\ Len(Phase1Results) = Len(data_agents)
            /\ \A k \in 1..Len(data_agents) :
                 /\ Phase1Results[k].agent = data_agents[k]
                 /\ Phase1Results[k].status \in {"success", "error"}
                 /\ Phase1Results[k] = ret[data_agents[k]]

\* the non-streaming endpoint has sent the reasoning agent its message after a
\* Phase 1 with a failed session and a session that returned text
C21_Witness ==
    /\ endpoint = "query"
    /\ \E i \in 1..Len(requests[Reasoning]) : IsChat(requests[Reasoning][i])
    /\ \E a, b \in DataNames : ret[a].status = "error" /\ ret[b].response = "a"
(***************************************************************************)
(* C22: build_investigation_prompt is deterministic: two calls on the same *)
(* list of results return the same text; a call on the list reordered      *)
(* returns the text with the per-agent blocks reordered in the same way,   *)
(* the content of each block unchanged (a block depends on its own result  *)
(* only, not on its position nor on its neighbours).                       *)
(***************************************************************************)
BlocksOf(rs) == [k \in 1..Len(rs) |-> PromptBlock(rs[k])]

\* the text made of the blocks bs between the fixed header and footer
TextOfBlocks(bs) == Concat(PromptHeader, bs) \o PromptFooter

C22_PromptDeterministic ==
    \A i, j \in 1..Len(built) :
        LET c == built[i]
            d == built[j] IN
        /\ c.results = d.results => c.text = d.text
        /\ \A q \in Reorderings(Len(c.results)) :
              d.results = Permuted(c.results, q) =>
                  /\ c.text = TextOfBlocks(BlocksOf(c.results))
                  /\ d.text = TextOfBlocks(Permuted(BlocksOf(c.results), q))

\* two calls, the second on the first's list of three distinct results
\* reordered: two different texts
C22_Witness ==
    /\ Len(built) = 2
    /\ Len(built[1].results) = 3
    /\ built[2].results # built[1].results
    /\ built[2].text # built[1].text
    /\ \E q \in Reorderings(3) : built[2].results = Permuted(built[1].results, q)

(***************************************************************************)
(* C23: the text build_investigation_prompt returns holds exactly one      *)
(* block per result, in the order of the list; a block names the agent and *)
(* its status and shows the agent's whole response text when the status is *)
(* success, its error string otherwise.  For GITHUB success, CLOUDWATCH    *)
(* error "timeout", SLACK success the three blocks come in that order and  *)
(* the CLOUDWATCH block shows "timeout".                                   *)
(***************************************************************************)
\* the block the claim describes for a result
ExpectedBlock(r) ==
    "### " \o r.agent \o "\n**Status:** " \o r.status \o "\n\n"
    \o (IF r.status = "success"
        THEN "**Findings:**\n" \o r.response
        ELSE "**Error:** " \o r.error)
    \o "\n\n---\n\n"

ExampleResults ==
    <<SuccessResult("GITHUB_AGENT", [EmptyAcc EXCEPT !.text_parts = <<"a">>]),
      ErrorResult("AWS_CLOUDWATCH_AGENT", "timeout"),
      SuccessResult("SLACK_AGENT", [EmptyAcc EXCEPT !.text_parts = <<"a">>])>>

C23_BlockPerResult ==
    \A i \in 1..Len(built) :
        LET rs == built[i].results IN
        /\ built[i].text =
              TextOfBlocks([k \in 1..Len(rs) |-> ExpectedBlock(rs[k])])
        /\ rs = ExampleResults =>
              built[i].text =
                  PromptHeader
                  \o "### GITHUB_AGENT\n**Status:** success\n\n"
                  \o "**Findings:**\na\n\n---\n\n"
                  \o "### AWS_CLOUDWATCH_AGENT\n**Status:** error\n\n"
                  \o "**Error:** timeout\n\n---\n\n"
                  \o "### SLACK_AGENT\n**Status:** success\n\n"
                  \o "**Findings:**\na\n\n---\n\n"
                  \o PromptFooter

\* the example of the claim has been built
C23_Witness ==
    \E i \in 1..Len(built) :
        /\ built[i].results = ExampleResults
        /\ built[i].text # TextOfBlocks(<<>>)

(***************************************************************************)
(* C24: a data line whose payload is a JSON object of a kind other than    *)
(* text-start, text-delta, text-end, tool-input-available,                 *)
(* tool-output-available and tool-output-error is ignored: the step that   *)
(* reads it changes no accumulator, puts no event and leaves the session   *)
(* reading; the session can still end in success, with the result the      *)
(* other lines give.                                                       *)
(***************************************************************************)
\* the session of agent a has read one more line, and it satisfies Is
ReadsLine(a, Is(_)) ==
    LET ls == sess'[a].lines IN
    Len(ls) = Len(sess[a].lines) + 1 /\ Is(ls[Len(ls)])

\* the frame of a step that ignores a line of the session of agent a
FrameOfIgnoredLine(a) ==
    /\ sess'[a].acc = sess[a].acc
    /\ sess'[a].result = sess[a].result
    /\ sess'[a].pc = "read"
    /\ sent' = sent /\ queue' = queue
    /\ ret' = ret /\ fault' = fault

UnknownKindLine(line) ==
    line.prefix /\ line.form = "object" /\ Get(line.obj, "type", "") \notin ProtocolKinds

\* the lines of ls that are not of an unknown kind
KnownOf(ls) == SelectSeq(ls, LAMBDA l : ~UnknownKindLine(l))

C24_UnknownKindIgnored ==
    /\ [][ReadsLine(data_agents[1], UnknownKindLine)
            => FrameOfIgnoredLine(data_agents[1])]_vars
    /\ [](LET a == data_agents[1] IN
          \A i \in 1..Len(sess[a].lines) :
            UnknownKindLine(sess[a].lines[i]) =>
               /\ i = Len(sess[a].lines) => fault[a].at # "decode"
               /\ sess[a].acc.text_parts = DeltasOf(KnownOf(sess[a].lines))
               /\ (ret[a] # Pending /\ fault[a].at = "none") =>
                      /\ ret[a].status = "success"
                      /\ ret[a].response = Join(DeltasOf(KnownOf(sess[a].lines)))
               /\ (endpoint = "stream_agent" /\ sess[a].pc = "read") =>
                      Tail(sent[a]) = PutsOf(a, PhaseOf(a), KnownOf(sess[a].lines)))

\* a streaming session returned "a" from a stream whose first line was of an
\* unknown kind and whose second line was the delta "a"
C24_Witness ==
    LET a == data_agents[1] IN
    /\ endpoint = "stream_agent"
    /\ Len(sess[a].lines) >= 2
    /\ sess[a].lines[1] = UnknownKind /\ sess[a].lines[2] = TextDelta("a")
    /\ ret[a].status = "success" /\ ret[a].response = "a"

(***************************************************************************)
(* C25: a line that does not begin with the data prefix (an empty line, a  *)
(* comment, a keep-alive) is ignored: the step that reads it changes no    *)
(* accumulator, puts no event and does not end the stream, and the result  *)
(* is that of the stream without such lines.                               *)
(***************************************************************************)
NoPrefix(line) == ~line.prefix

\* the lines of ls that begin with the data prefix
DataLinesOf(ls) == SelectSeq(ls, LAMBDA l : l.prefix)

C25_NoPrefixIgnored ==
    /\ [][ReadsLine(data_agents[1], NoPrefix) => FrameOfIgnoredLine(data_agents[1])]_vars
    /\ [](LET a == data_agents[1] IN
          /\ sess[a].acc.text_parts = DeltasOf(DataLinesOf(sess[a].lines))
          /\ (sess[a].lines # <<>> /\ NoPrefix(sess[a].lines[Len(sess[a].lines)])) =>
                 fault[a].at # "decode"
          /\ (endpoint = "stream_agent" /\ sess[a].pc = "read") =>
                 Tail(sent[a]) = PutsOf(a, PhaseOf(a), DataLinesOf(sess[a].lines)))

\* a streaming session returned "a" from a stream whose second line had no
\* data prefix and stood between the delta "a" and the sentinel
C25_Witness ==
    LET a == data_agents[1] IN
    /\ endpoint = "stream_agent"
    /\ sess[a].lines = <<TextDelta("a"), NoDataLine, DoneLine>>
    /\ ret[a].status = "success" /\ ret[a].response = "a"

(***************************************************************************)
(* C26: a session creates at most one conversation and sends at most one   *)
(* message, on the conversation it created itself; no conversation id is   *)
(* used by two sessions; a session whose conversation creation failed      *)
(* sends no message.                                                       *)
(***************************************************************************)
CreatesOf(a) == SelectSeq(requests[a], IsCreate)
ChatsOf(a) == SelectSeq(requests[a], IsChat)

\* the id the backend returned for the conversation a session created
CreatedBy(a) == [title |-> CreateRequest(a).title, n |-> 1]

C26_OneConversationEach ==
    \A a \in AgentNames :
        /\ Len(CreatesOf(a)) <= 1
        /\ Len(ChatsOf(a)) <= 1
        /\ ChatsOf(a) # <<>> =>
              /\ requests[a] = CreatesOf(a) \o ChatsOf(a)
              /\ Len(CreatesOf(a)) = 1
              /\ ChatsOf(a)[1].id = CreatedBy(a)
              /\ fault[a].at # "conv"
        /\ fault[a].at = "conv" => requests[a] = <<CreateRequest(a)>>
        /\ \A b \in AgentNames \ {a} :
              \A i \in 1..Len(ChatsOf(a)), j \in 1..Len(ChatsOf(b)) :
                  ChatsOf(a)[i].id # ChatsOf(b)[j].id

\* the four sessions of a run are over: one could not create its conversation
\* and sent nothing, the three others sent their message
C26_Witness ==
    /\ \E a \in DataNames :
          /\ fault[a].at = "conv" /\ ChatsOf(a) = <<>>
          /\ \A b \in (DataNames \cup {Reasoning}) \ {a} : Len(ChatsOf(b)) = 1
    /\ sess[Reasoning].pc = "done"

(***************************************************************************)
(* C27: a timeout of the streaming call of a session is handled like any   *)
(* other failure of the network: the session ends with an error result     *)
(* that carries the message of the exception (when streaming, after an     *)
(* error event and an agent_complete event), and it does not retry: it has *)
(* created one conversation and sent one message.                          *)
(***************************************************************************)
\* how a session whose streaming call failed with message m has ended
EndedInError(a, m) ==
    /\ sess[a].pc = "done"
    /\ ret[a].agent = a /\ ret[a].status = "error" /\ ret[a].error = m
    /\ ret[a].response = PyNone
    /\ Len(CreatesOf(a)) = 1 /\ Len(ChatsOf(a)) = 1 /\ Len(requests[a]) = 2
    /\ ~ENABLED (stream_agent(a) \/ query_agent(a))
    /\ endpoint = "stream_agent" =>
          LET n == Len(sent[a]) IN
          /\ n >= 3
          /\ sent[a][n - 1] = Event("error", a, PhaseOf(a), [message |-> m])
          /\ sent[a][n].event = "agent_complete"
          /\ sent[a][n].data = [response |-> PyNone, error |-> m]
          /\ Count(sent[a], LAMBDA e : e.event = "agent_complete") = 1

C27_TimeoutLikeAnyFailure ==
    LET a == data_agents[1] IN
    \A m \in OpenErrors \cup ReadErrors :
        (fault[a].at \in {"open", "read"} /\ fault[a].msg = m) => EndedInError(a, m)

\* a streaming session timed out on a read after it had put a text_delta
C27_Witness ==
    LET a == data_agents[1] IN
    /\ endpoint = "stream_agent"
    /\ fault[a] = [at |-> "read", msg |-> "ReadTimeout"]
    /\ sess[a].lines = <<TextDelta("a")>>
    /\ ret[a].status = "error"

(***************************************************************************)
(* C28: the non-streaming call runs both phases to the end and returns,    *)
(* for the N data agents, N Phase-1 results in the order of the agents and *)
(* one Phase-2 result, whichever sessions succeed or fail; no failure of   *)
(* an agent makes it raise or stop.                                        *)
(***************************************************************************)
IsResult(r, a) == r.agent = a /\ r.status \in {"success", "error"}

C28_QueryReturnsAll ==
    endpoint = "query" =>
        /\ \A a \in AgentNames : ret[a].status # "raised"
        /\ response = NoResponse =>
              ENABLED (query_all_agents \/ \E a \in DataNames \cup {Reasoning} : query_agent(a))
        /\ response # NoResponse =>
              /\ genpc = "done"
              /\ \A a \in DataNames \cup {Reasoning} : sess[a].pc = "done"
              /\ Len(response.data_results) = Len(data_agents)
              /\ \A k \in 1..Len(data_agents) :
                    /\ IsResult(response.data_results[k], data_agents[k])
                    /\ response.data_results[k] = ret[data_agents[k]]
                    /\ (response.data_results[k].status = "error")
                          = (fault[data_agents[k]].at # "none")
              /\ IsResult(response.investigation_result, Reasoning)
              /\ response.investigation_result = ret[Reasoning]

\* the call returned after the first and the third data agent had failed and
\* the reasoning agent had succeeded
C28_Witness ==
    /\ endpoint = "query" /\ response # NoResponse
    /\ response.data_results[1].status = "error"
    /\ response.data_results[2].status = "success"
    /\ response.data_results[3].status = "error"
    /\ response.investigation_result.status = "success"

(***************************************************************************)
(* C29: a stream that ends because the response closes without a [DONE]   *)
(* sentinel ends the session as a stream ended by the sentinel does: the   *)
(* result has status success and carries every accumulator built from the  *)
(* lines read (text, tool calls, tool outputs, errors).                    *)
(***************************************************************************)
\* one iteration of the line loop of the endpoint at hand
LineStep(a, acc, line) ==
    IF Streaming THEN StreamLine(a, PhaseOf(a), acc, line) ELSE CollectLine(acc, line)

\* the accumulators of a session that has read the lines ls, one after the
\* other, starting from acc
RECURSIVE AccAfter(_, _, _)
AccAfter(a, acc, ls) ==
    IF ls = <<>> THEN acc ELSE AccAfter(a, LineStep(a, acc, ls[1]).acc, Tail(ls))

\* the number of lines of ls whose payload is an object of type t
CountType(ls, t) == CountProtocol(ls, {t})

\* the session left its loop without having read a sentinel
EndedWithoutSentinel(a) ==
    /\ sess[a].pc \in {"closing", "done"}
    /\ fault[a].at \in {"none", "close"}
    /\ sess[a].lines = <<>> \/ sess[a].lines[Len(sess[a].lines)] # DoneLine

C29_CleanCloseIsSuccess ==
    LET a == data_agents[1]
        ls == sess[a].lines
        res == sess[a].result IN
    EndedWithoutSentinel(a) =>
        /\ res = SuccessResult(a, AccAfter(a, EmptyAcc, ls))
        /\ res = SuccessResult(a, AccAfter(a, EmptyAcc, ls \o <<DoneLine>>))
        /\ res.status = "success"
        /\ res.response = Concat("", DeltasOf(ls))
        /\ Len(res.tool_calls) = CountType(ls, "tool-input-available")
        /\ Len(res.tool_outputs) = CountType(ls, "tool-output-available")
        /\ Len(res.errors) = CountType(ls, "tool-output-error")
        /\ (ret[a] # Pending /\ fault[a].at = "none") => ret[a] = res
        /\ endpoint = "stream_agent" =>
              SubSeq(sent[a], 1, Len(PutsOf(a, PhaseOf(a), ls)) + 2)
                = <<Event("agent_start", a, PhaseOf(a), EmptyDict)>>
                  \o PutsOf(a, PhaseOf(a), ls)
                  \o <<Event("agent_complete", a, PhaseOf(a),
                              [response |-> res.response])>>

\* a streaming session returned "a", one tool call and one tool output from a
\* stream of three lines that ended without a sentinel
C29_Witness ==
    LET a == data_agents[1] IN
    /\ endpoint = "stream_agent"
    /\ sess[a].lines = <<TextDelta("a"), ToolInput, ToolOutput>>
    /\ ret[a].status = "success" /\ ret[a].response = "a"
    /\ Len(ret[a].tool_calls) = 1 /\ Len(ret[a].tool_outputs) = 1

(***************************************************************************)
(* C30: concurrent sessions share no accumulator: however their steps      *)
(* interleave, the accumulators of a session are built from the lines of   *)
(* its own stream alone, and the result it returns is the one the session  *)
(* returns when it runs alone on the same stream.                          *)
(***************************************************************************)
\* the lines a session has read, the sentinel left out
OwnLines(a) == SelectSeq(sess[a].lines, LAMBDA l : l # DoneLine)

C30_NoSharedAccumulator ==
    \A a \in DataNames \cup {Reasoning} :
        /\ sess[a].acc = AccAfter(a, EmptyAcc, sess[a].lines)
        /\ sess[a].acc.text_parts = DeltasOf(OwnLines(a))
        /\ (ret[a] # Pending /\ fault[a].at = "none") =>
              /\ ret[a] = SuccessResult(a, AccAfter(a, EmptyAcc, sess[a].lines))
              /\ ret[a].response = Concat("", DeltasOf(OwnLines(a)))
              /\ ret[a].tool_calls = <<>> /\ ret[a].tool_outputs = <<>>
              /\ ret[a].errors = <<>>

\* two sessions read from their streams in turn and returned different texts
C30_Witness ==
    \E a, b \in DataNames :
        /\ Index(a) < Index(b)
        /\ sess[a].lines = <<TextDelta("a"), TextDelta("a")>>
        /\ sess[b].lines = <<TextDelta("a")>>
        /\ ret[a].status = "success" /\ ret[a].response = "aa"
        /\ ret[b].status = "success" /\ ret[b].response = "a"

(***************************************************************************)
(* C31: a run of stream_agent puts at most one agent_complete event on its *)
(* queue, on every path, and no error event after its agent_complete: a    *)
(* failure raised while the HTTP client is left, after the agent_complete  *)
(* of the success path was put, adds neither.                              *)
(***************************************************************************)
C31_AtMostOneComplete ==
    LET a == data_agents[1]
        s == sent[a] IN
    endpoint = "stream_agent" =>
        /\ Count(s, LAMBDA e : IsKind(e, "agent_complete")) <= 1
        /\ \A i, j \in 1..Len(s) :
              (i < j /\ IsKind(s[i], "agent_complete")) => ~IsKind(s[j], "error")

(***************************************************************************)
(* C32: the first event a session puts is agent_start; it is put exactly   *)
(* once, before any network call of the session; every agent_complete of   *)
(* an agent is preceded in the feed by the agent_start of that agent, on   *)
(* the failure paths too.                                                  *)
(***************************************************************************)
IsStart(e) == IsKind(e, "agent_start")

BeforePhase1Complete ==
    LET i == CHOOSE i \in FeedPos : IsPhase1Complete(FeedEvents[i]) IN
    SubSeq(FeedEvents, 1, i - 1)

IsComplete(e) == IsKind(e, "agent_complete")

C33_OneCompletePerAgent ==
    (endpoint = "stream" /\ \E i \in FeedPos : IsPhase1Complete(FeedEvents[i])) =>
        /\ Count(BeforePhase1Complete, IsComplete) = Len(data_agents)
        /\ \A a \in DataNames :
              Count(OfAgent(BeforePhase1Complete, a), IsComplete) = 1

(***************************************************************************)
(* C34: the events and the results agree: the entry of an agent in the     *)
(* results of phase_complete has status error exactly when the             *)
(* agent_complete event of that agent carries an error field, and then the *)
(* two error strings are equal; for an agent that succeeded the response   *)
(* of its agent_complete equals the response of its result and the         *)
(* concatenation, in feed order, of the deltas of its text_delta events.   *)
(***************************************************************************)
\* the agent_complete event e of an agent agrees with the result r and with
\* the events f of that agent
Agree(e, r, f) ==
    /\ (r.status = "error") = ("error" \in DOMAIN e.data)
    /\ r.status = "error" => e.data.error = r.error
    /\ r.status = "success" =>
          /\ e.data.response = r.response
          /\ e.data.response = Concat("", EventDeltas(f))

C34_EventsAgreeWithResults ==
    (endpoint = "stream" /\ \E i \in FeedPos : IsPhase1Complete(FeedEvents[i])) =>
        \A k \in 1..Len(data_agents) :
            LET f == OfAgent(BeforePhase1Complete, data_agents[k])
                r == Phase1Results[k] IN
            /\ \E j \in 1..Len(f) : IsComplete(f[j])
            /\ \A j \in 1..Len(f) : IsComplete(f[j]) => Agree(f[j], r, f)

(***************************************************************************)
(* C35: on the same behaviour of the backend (the same outcome of the      *)
(* conversation request and the same lines in the stream) stream_agent     *)
(* returns the result record query_agent returns: the same status,         *)
(* response, tool_calls, tool_outputs, errors and error.                   *)
(***************************************************************************)
\* one iteration of the line loop of the other kind of session
OtherLineStep(a, acc, line) ==
    IF Streaming THEN CollectLine(acc, line) ELSE StreamLine(a, PhaseOf(a), acc, line)

\* the accumulators the other kind of session builds from the lines ls
RECURSIVE OtherAccAfter(_, _, _)
OtherAccAfter(a, acc, ls) ==
    IF ls = <<>> THEN acc
    ELSE OtherAccAfter(a, OtherLineStep(a, acc, ls[1]).acc, Tail(ls))

\* what the other kind of session returns on the backend behaviour at hand
OtherReturn(a) ==
    IF fault[a].at = "none"
    THEN SuccessResult(a, OtherAccAfter(a, EmptyAcc, sess[a].lines))
    ELSE ErrorResult(a, fault[a].msg)

C35_SameResultBothWays ==
    LET a == data_agents[1] IN
    /\ \A line \in Lines :
          LineStep(a, EmptyAcc, line).ctl = OtherLineStep(a, EmptyAcc, line).ctl
    /\ ret[a] # Pending =>
          /\ ret[a].status = OtherReturn(a).status
          /\ ret[a].response = OtherReturn(a).response
          /\ ret[a].tool_calls = OtherReturn(a).tool_calls
          /\ ret[a].tool_outputs = OtherReturn(a).tool_outputs
          /\ ret[a].errors = OtherReturn(a).errors
          /\ ret[a].status = "error" => ret[a].error = OtherReturn(a).error

(***************************************************************************)
(* C36: a tool-output-error payload does not fail the session: its message *)
(* is appended to the errors of the result, an error event is put,         *)
(* decoding goes on and the session can still end with status success; so  *)
(* an error event of an agent does not imply an error result.              *)
(***************************************************************************)
IsToolError(line) == IsProtocol(line, {"tool-output-error"})

\* the messages of the tool errors among the lines ls, in order
RECURSIVE ToolErrorsOf(_)
ToolErrorsOf(ls) ==
    IF ls = <<>> THEN <<>>
    ELSE (IF IsToolError(ls[1]) THEN <<Get(ls[1].obj, "errorText", "")>> ELSE <<>>)
         \o ToolErrorsOf(Tail(ls))

\* the messages of the error events among evs, in order
RECURSIVE ErrorMessages(_)
ErrorMessages(evs) ==
    IF evs = <<>> THEN <<>>
    ELSE (IF IsKind(evs[1], "error") THEN <<evs[1].data.message>> ELSE <<>>)
         \o ErrorMessages(Tail(evs))

C36_ToolErrorIsNotFailure ==
    LET a == data_agents[1]
        ls == sess[a].lines IN
    /\ sess[a].acc.errors = ToolErrorsOf(ls)
    /\ (ls # <<>> /\ IsToolError(ls[Len(ls)])) =>
          /\ fault[a].at # "decode"
          /\ sess[a].pc = "read" => ENABLED (stream_agent(a) \/ query_agent(a))
    /\ (ret[a] # Pending /\ fault[a].at = "none") =>
          ret[a].status = "success" /\ ret[a].errors = ToolErrorsOf(ls)
    /\ endpoint = "stream_agent" =>
          ErrorMessages(sent[a])
            = ToolErrorsOf(ls) \o (IF fault[a].at = "none" THEN <<>> ELSE <<fault[a].msg>>)

\* a streaming session returned success and "a" after it had put an error
\* event for the tool error that came first in its stream
C36_Witness ==
    LET a == data_agents[1] IN
    /\ endpoint = "stream_agent"
    /\ sess[a].lines = <<ToolError, TextDelta("a"), DoneLine>>
    /\ ret[a].status = "success" /\ ret[a].response = "a"
    /\ ret[a].errors = <<"denied">>
    /\ ErrorMessages(sent[a]) = <<"denied">>

(***************************************************************************)
(* C37: under fair scheduling, every backend call of every session ending  *)
(* by returning, failing or timing out, the streaming pipeline terminates: *)
(* the close marker of Phase 1 is eventually put, also when sessions fail; *)
(* a consumer loop that waits on an empty queue eventually gets an item;   *)
(* the feed eventually delivers the phase_complete of Phase 1, the         *)
(* phase_complete of Phase 2 and the end marker.                           *)
(***************************************************************************)
\* the consumer loop of phase p waits on its empty queue
Waiting(p) ==
    /\ genpc = (IF p = 1 THEN "phase1" ELSE "phase2")
    /\ queue[p] = <<>>

\* the feed is over: both phase_complete events, then the end marker
FeedComplete ==
    /\ genpc = "done"
    /\ Count(FeedEvents, IsPhase1Complete) = 1
    /\ Count(FeedEvents, IsPhase2Complete) = 1
    /\ feed # <<>> /\ feed[Len(feed)] = EndMarker

C37_PipelineTerminates ==
    /\ \A p \in {1, 2} : Waiting(p) ~> (queue[p] # <<>>)
    /\ <>[](runpc = "done" /\ FeedComplete)

\* the feed is over after a run in which a Phase-1 session failed
C37_Witness ==
    /\ FeedComplete
    /\ \E a \in DataNames : fault[a].at \in {"conv", "open", "read"}

====
